---- MODULE Spec2Model ----
(***************************************************************************)
(* Cache coordination layer of the product catalog backend:                *)
(* RedisConnection (connection state), RedisCacheService (cache engine:    *)
(* keys, hash / string representations, retry with backoff, statistics).   *)
(*                                                                         *)
(* Text is modelled as a sequence of one-character strings, so that        *)
(* toString / parseInt / parseFloat / trim are computed, not assumed.      *)
(* A price is held in hundredths (999 stands for 9.99).                    *)
(* AsyncCacheService (deferred cache maintenance behind feature flags)     *)
(* runs its tasks on the same engine; ProductService (catalog) runs its    *)
(* operations on the engine and on the persistence collaborator (db).      *)
(***************************************************************************)
EXTENDS Integers, Sequences, FiniteSets, TLC

VARIABLES store, connected, stats, call, prev, nCalls, obs, reliable,
          productConfig, facade, service, db, parked, conn, http

vars == <<store, connected, stats, call, prev, nCalls, obs, reliable,
          productConfig, facade, service, db, parked, conn, http>>

\* The state of the layers above the cache engine, and what is remembered of
\* the use of the connection.
upper == <<productConfig, facade, service, db, parked, conn, http>>

(***************************************************************************)
(* Bounds of the exploration.                                              *)
(***************************************************************************)
\* Calls made in one run against a reliable backend, and against one that
\* may fail at any moment.
MaxCalls == 4

MaxCallsUnreliable == 2

\* Keys visited by one round of SCAN (the COUNT option, 100 in the program,
\* scaled to the few keys of the exploration).
ScanBatch == 2

(***************************************************************************)
(* Program constants.                                                      *)
(***************************************************************************)
CACHE_PREFIX == "product"
HASH_PREFIX == "products_hash"
LIST_PREFIX == "products_list"

maxRetries == 3
initialDelay == 100
backoffFactor == 2
maxDelay == 1000

productTTL == 60
productListTTL == 300

(***************************************************************************)
(* Optional values: <<>> stands for JavaScript's undefined, null and NaN,  *)
(* <<v>> for the value v.                                                  *)
(***************************************************************************)
Undef == <<>>
Null == <<>>
NaN == <<>>
Some(v) == <<v>>

(***************************************************************************)
(* Text helpers.                                                           *)
(***************************************************************************)
DigitChars == <<"0", "1", "2", "3", "4", "5", "6", "7", "8", "9">>

IsDigit(c) == \E i \in 1..10 : DigitChars[i] = c

DigitVal(c) == (CHOOSE i \in 1..10 : DigitChars[i] = c) - 1

IsSpace(c) == c = " "

Min(a, b) == IF a <= b THEN a ELSE b

\* Number.prototype.toString of a non-negative integer.
RECURSIVE IntToString(_)
IntToString(n) ==
  IF n < 10 THEN <<DigitChars[n + 1]>>
  ELSE IntToString(n \div 10) \o <<DigitChars[(n % 10) + 1]>>

\* Variant: the fraction of the price is lost when it is written.
PriceToStringWhole(h) ==
  (IF h < 0 THEN <<"-">> ELSE <<>>) \o
  IntToString((IF h < 0 THEN 0 - h ELSE h) \div 100)

\* Number.prototype.toString of a price held in hundredths: a leading "-"
\* when it is negative, no fraction when it is whole, no trailing zero in
\* the fraction.
PriceToString(h) ==
  LET mag == IF h < 0 THEN 0 - h ELSE h
      whole == mag \div 100
      frac == mag % 100
  IN (IF h < 0 THEN <<"-">> ELSE <<>>) \o IntToString(whole) \o
     (IF frac = 0 THEN <<>>
      ELSE IF frac % 10 = 0 THEN <<".", DigitChars[(frac \div 10) + 1]>>
      ELSE <<".", DigitChars[(frac \div 10) + 1], DigitChars[(frac % 10) + 1]>>)

\* String.prototype.trim: drops leading and trailing white space.
RECURSIVE TrimLeft(_)
TrimLeft(s) ==
  IF s # <<>> /\ IsSpace(Head(s)) THEN TrimLeft(Tail(s)) ELSE s

RECURSIVE TrimRight(_)
TrimRight(s) ==
  IF s # <<>> /\ IsSpace(s[Len(s)]) THEN TrimRight(SubSeq(s, 1, Len(s) - 1)) ELSE s

Trim(s) == TrimRight(TrimLeft(s))

\* Length of the longest prefix of s made of digits.
RECURSIVE DigitRun(_)
DigitRun(s) ==
  IF s # <<>> /\ IsDigit(Head(s)) THEN 1 + DigitRun(Tail(s)) ELSE 0

RECURSIVE DigitsValue(_)
DigitsValue(s) ==
  IF s = <<>> THEN 0
  ELSE 10 * DigitsValue(SubSeq(s, 1, Len(s) - 1)) + DigitVal(s[Len(s)])

\* parseInt(text): skips leading white space, reads an optional sign and the
\* longest run of digits, ignores what follows; NaN when there is no digit.
ParseInt(text) ==
  LET s == TrimLeft(text)
      neg == s # <<>> /\ Head(s) = "-"
      body == IF s # <<>> /\ Head(s) \in {"-", "+"} THEN Tail(s) ELSE s
      n == DigitRun(body)
  IN IF n = 0 THEN NaN
     ELSE IF neg THEN Some(0 - DigitsValue(SubSeq(body, 1, n)))
     ELSE Some(DigitsValue(SubSeq(body, 1, n)))

\* parseFloat(text), in hundredths: as parseInt, with an optional fraction of
\* which the first two digits are kept.
ParseFloat(text) ==
  LET s == TrimLeft(text)
      neg == s # <<>> /\ Head(s) = "-"
      body == IF s # <<>> /\ Head(s) \in {"-", "+"} THEN Tail(s) ELSE s
      n == DigitRun(body)
      rest == SubSeq(body, n + 1, Len(body))
      hasDot == rest # <<>> /\ Head(rest) = "."
      fracText == IF hasDot THEN Tail(rest) ELSE <<>>
      m == DigitRun(fracText)
      d1 == IF m >= 1 THEN DigitVal(fracText[1]) ELSE 0
      d2 == IF m >= 2 THEN DigitVal(fracText[2]) ELSE 0
      mag == 100 * DigitsValue(SubSeq(body, 1, n)) + 10 * d1 + d2
  IN IF n = 0 /\ m = 0 THEN NaN
     ELSE IF neg THEN Some(0 - mag)
     ELSE Some(mag)

(***************************************************************************)
(* Keys.  A key is its text cut into tokens: the prefix, ":" separators,   *)
(* the words "single" and "list", the digits of an id, a list fingerprint. *)
(***************************************************************************)
\* prefix || fallback: an absent or empty prefix selects the fallback.
PrefixOr(prefix, fallback) ==
  IF prefix = Undef \/ prefix = <<"">> THEN fallback ELSE prefix[1]

generateKey(key, prefix) == <<PrefixOr(prefix, CACHE_PREFIX), ":">> \o key

generateHashKey(id, prefix) == <<PrefixOr(prefix, HASH_PREFIX), ":">> \o IntToString(id)

SingleKey(id) == <<"single", ":">> \o IntToString(id)

ListKey(cacheKey) == <<"list", ":">> \o cacheKey

\* customTTL || default: an absent or zero ttl selects the default.
getProductTTL(customTTL) ==
  IF customTTL = Undef \/ customTTL = <<0>> THEN productTTL ELSE customTTL[1]

getProductListTTL(customTTL) ==
  IF customTTL = Undef \/ customTTL = <<0>> THEN productListTTL ELSE customTTL[1]

\* options?.useHash ?? true
UseHash(options) == IF options.useHash = Undef THEN TRUE ELSE options.useHash[1]

(***************************************************************************)
(* Statistics.  hitRate is kept exact: it stands for (num / den) * 100.    *)
(***************************************************************************)
ZeroStats ==
  [hits |-> 0, misses |-> 0, operations |-> 0, errors |-> 0, retries |-> 0,
   hitRate |-> [num |-> 0, den |-> 1]]

\* Variant: a miss is counted as an operation but not as a miss.
updateStatsNoMiss(st, hit, error, retry) ==
  LET ops == st.operations + 1
      h == IF hit THEN st.hits + 1 ELSE st.hits
  IN [hits |-> h,
      misses |-> st.misses,
      operations |-> ops,
      errors |-> IF error THEN st.errors + 1 ELSE st.errors,
      retries |-> IF retry THEN st.retries + 1 ELSE st.retries,
      hitRate |-> IF ops > 0 THEN [num |-> h, den |-> ops] ELSE [num |-> 0, den |-> 1]]

\* Variant: hitRate is computed from the counters before they are updated.
updateStatsStaleRate(st, hit, error, retry) ==
  LET ops == st.operations + 1
      h == IF hit THEN st.hits + 1 ELSE st.hits
      m == IF hit THEN st.misses ELSE st.misses + 1
  IN [hits |-> h,
      misses |-> m,
      operations |-> ops,
      errors |-> IF error THEN st.errors + 1 ELSE st.errors,
      retries |-> IF retry THEN st.retries + 1 ELSE st.retries,
      hitRate |-> IF st.operations > 0 THEN [num |-> st.hits, den |-> st.operations]
                  ELSE [num |-> 0, den |-> 1]]

updateStats(st, hit, error, retry) ==
  LET ops == st.operations + 1
      h == IF hit THEN st.hits + 1 ELSE st.hits
      m == IF hit THEN st.misses ELSE st.misses + 1
  IN [hits |-> h,
      misses |-> m,
      operations |-> ops,
      errors |-> IF error THEN st.errors + 1 ELSE st.errors,
      retries |-> IF retry THEN st.retries + 1 ELSE st.retries,
      hitRate |-> IF ops > 0 THEN [num |-> h, den |-> ops] ELSE [num |-> 0, den |-> 1]]

(***************************************************************************)
(* The cache backend: a map from keys to entries.  An entry is a hash      *)
(* (field name -> text) or a string value (a JSON text); ttl is the expiry *)
(* in seconds, NoExpiry when none is set.                                  *)
(***************************************************************************)
NoExpiry == -1

NoFields == [f \in {} |-> <<>>]

HashEntry(fields, ttl) == [type |-> "hash", fields |-> fields, value |-> <<>>, ttl |-> ttl]

StringEntry(text, ttl) == [type |-> "string", fields |-> NoFields, value |-> <<text>>, ttl |-> ttl]

Put(s, key, entry) == [k \in (DOMAIN s) \cup {key} |-> IF k = key THEN entry ELSE s[k]]

\* HSET key field value ...: creates the hash or merges into it; the expiry
\* of an existing key is kept.
HSet(s, key, fields) ==
  IF key \in DOMAIN s
  THEN Put(s, key,
           HashEntry([f \in (DOMAIN s[key].fields) \cup (DOMAIN fields) |->
                        IF f \in DOMAIN fields THEN fields[f] ELSE s[key].fields[f]],
                     s[key].ttl))
  ELSE Put(s, key, HashEntry(fields, NoExpiry))

\* EXPIRE key seconds: no effect on an absent key.
Expire(s, key, ttl) ==
  IF key \in DOMAIN s THEN Put(s, key, [s[key] EXCEPT !.ttl = ttl]) ELSE s

\* SETEX key seconds value: replaces whatever the key held.
SetEx(s, key, ttl, text) == Put(s, key, StringEntry(text, ttl))

\* HGETALL key: the empty map for an absent key.
HGetAll(s, key) == IF key \in DOMAIN s THEN s[key].fields ELSE NoFields

\* GET key: null for an absent key.
Get(s, key) == IF key \in DOMAIN s THEN s[key].value ELSE Null

\* DEL key ...: absent keys are ignored; replies with the number removed.
Del(s, keys) == [k \in (DOMAIN s) \ keys |-> s[k]]

DelCount(s, keys) == Cardinality(keys \cap DOMAIN s)

\* Keys matching the pattern "<tokens>*".
IsPrefixOf(p, k) == Len(p) <= Len(k) /\ SubSeq(k, 1, Len(p)) = p

\* SCAN cursor MATCH pattern COUNT n.  The cursor stands for the keys not
\* visited yet (0, the empty set, once the iteration is complete); a round
\* visits up to ScanBatch of them and replies with those that match.
scan(s, cursor, pattern) ==
  LET batch == CHOOSE b \in SUBSET cursor :
                 Cardinality(b) = Min(ScanBatch, Cardinality(cursor))
  IN [cursor |-> cursor \ batch, keys |-> {k \in batch : IsPrefixOf(pattern, k)}]

\* Variant: the keys of the first round only.
scanKeysOneRound(s, pattern) == scan(s, DOMAIN s, pattern).keys

\* do { scan } while (cursor !== 0), the keys of every round accumulated.
RECURSIVE ScanRounds(_, _, _)
ScanRounds(s, cursor, pattern) ==
  LET result == scan(s, cursor, pattern)
  IN result.keys \cup
     (IF result.cursor = {} THEN {} ELSE ScanRounds(s, result.cursor, pattern))

scanKeys(s, pattern) == ScanRounds(s, DOMAIN s, pattern)

(***************************************************************************)
(* JSON.stringify / JSON.parse of a product and of a list of products.     *)
(* A JSON text is modelled by its members, numbers in their decimal text.  *)
(***************************************************************************)
StringifyProduct(p) ==
  [id |-> IntToString(p.id), name |-> p.name,
   price |-> PriceToString(p.price), category |-> p.category]

ParseProduct(j) ==
  [id |-> ParseInt(j.id)[1], name |-> j.name,
   price |-> ParseFloat(j.price)[1], category |-> j.category]

StringifyProducts(ps) == [i \in 1..Len(ps) |-> StringifyProduct(ps[i])]

ParseProducts(js) == [i \in 1..Len(js) |-> ParseProduct(js[i])]

(***************************************************************************)
(* reconstructProductFromHash: the product, or the error it throws.        *)
(***************************************************************************)
\* !productHash.f : the field is absent or the empty string.
Falsy(h, f) == f \notin DOMAIN h \/ h[f] = <<>>

\* Variant: the parsed id is not validated.
reconstructWithoutIdCheck(productHash) ==
  IF Falsy(productHash, "id") \/ Falsy(productHash, "name")
     \/ Falsy(productHash, "price") \/ Falsy(productHash, "category")
  THEN [ok |-> FALSE, err |-> "Invalid product hash data: missing required fields",
        product |-> Null]
  ELSE LET id == ParseInt(productHash["id"])
           price == ParseFloat(productHash["price"])
       IN IF price = NaN \/ price[1] < 0
          THEN [ok |-> FALSE, err |-> "Invalid product hash data: invalid price",
                product |-> Null]
          ELSE [ok |-> TRUE, err |-> "",
                product |-> Some([id |-> IF id = NaN THEN 0 ELSE id[1],
                                  name |-> Trim(productHash["name"]),
                                  price |-> price[1],
                                  category |-> Trim(productHash["category"])])]

reconstructProductFromHash(productHash) ==
  IF Falsy(productHash, "id") \/ Falsy(productHash, "name")
     \/ Falsy(productHash, "price") \/ Falsy(productHash, "category")
  THEN [ok |-> FALSE, err |-> "Invalid product hash data: missing required fields",
        product |-> Null]
  ELSE LET id == ParseInt(productHash["id"])
           price == ParseFloat(productHash["price"])
       IN IF id = NaN \/ id[1] <= 0
          THEN [ok |-> FALSE, err |-> "Invalid product hash data: invalid ID",
                product |-> Null]
          ELSE IF price = NaN \/ price[1] < 0
          THEN [ok |-> FALSE, err |-> "Invalid product hash data: invalid price",
                product |-> Null]
          ELSE [ok |-> TRUE, err |-> "",
                product |-> Some([id |-> id[1],
                                  name |-> Trim(productHash["name"]),
                                  price |-> price[1],
                                  category |-> Trim(productHash["category"])])]

(***************************************************************************)
(* The bodies of the cache operations, as run by one attempt once the      *)
(* connection check has passed.  failAt numbers the backend command that   *)
(* throws in this attempt (0: none); the commands before it take effect.   *)
(* An outcome carries the backend and the statistics after the attempt,    *)
(* the value returned or the error thrown, the fields written by HSET,     *)
(* the count returned by DEL and the number of DEL commands issued.        *)
(***************************************************************************)
RedisError == "backend command failed"

NotConnected == "Redis client is not connected"

Returned(s, st, result, written) ==
  [store |-> s, stats |-> st, ok |-> TRUE, err |-> "", result |-> result,
   written |-> written, deleted |-> 0, dels |-> 0]

Thrown(s, st, err, written) ==
  [store |-> s, stats |-> st, ok |-> FALSE, err |-> err, result |-> Null,
   written |-> written, deleted |-> 0, dels |-> 0]

\* new Date().toISOString(); the instant itself plays no part in the model.
NowISO == <<"t">>

ProductHash(product) ==
  [id |-> IntToString(product.id),
   name |-> product.name,
   price |-> PriceToString(product.price),
   category |-> product.category,
   cachedAt |-> NowISO]

cacheProduct(s, st, product, options, failAt) ==
  LET ttl == getProductTTL(options.ttl)
  IN IF UseHash(options)
     THEN LET hashKey == generateHashKey(product.id, options.prefix)
              s1 == HSet(s, hashKey, ProductHash(product))
              s2 == Expire(s1, hashKey, ttl)
          IN IF failAt = 1 THEN Thrown(s, st, RedisError, {})
             ELSE IF failAt = 2 THEN Thrown(s1, st, RedisError, DOMAIN ProductHash(product))
             ELSE Returned(s2, st, Null, DOMAIN ProductHash(product))
     ELSE LET key == generateKey(SingleKey(product.id), options.prefix)
          IN IF failAt = 1 THEN Thrown(s, st, RedisError, {})
             ELSE Returned(SetEx(s, key, ttl, StringifyProduct(product)), st, Null, {})

getCachedProduct(s, st, id, options, failAt) ==
  IF failAt = 1 THEN Thrown(s, st, RedisError, {})
  ELSE IF UseHash(options)
  THEN LET hashKey == generateHashKey(id, options.prefix)
           productHash == HGetAll(s, hashKey)
           rec == reconstructProductFromHash(productHash)
       IN IF DOMAIN productHash # {}
          THEN IF rec.ok
               THEN Returned(s, updateStats(st, TRUE, FALSE, FALSE), rec.product, {})
               ELSE Thrown(s, updateStats(st, TRUE, FALSE, FALSE), rec.err, {})
          ELSE Returned(s, updateStats(st, FALSE, FALSE, FALSE), Null, {})
  ELSE LET key == generateKey(SingleKey(id), options.prefix)
           cached == Get(s, key)
       IN IF cached # Null
          THEN Returned(s, updateStats(st, TRUE, FALSE, FALSE), Some(ParseProduct(cached[1])), {})
          ELSE Returned(s, updateStats(st, FALSE, FALSE, FALSE), Null, {})

cacheProducts(s, st, products, cacheKey, options, failAt) ==
  LET key == generateKey(ListKey(cacheKey), options.prefix)
      ttl == getProductListTTL(options.ttl)
  IN IF failAt = 1 THEN Thrown(s, st, RedisError, {})
     ELSE Returned(SetEx(s, key, ttl, StringifyProducts(products)), st, Null, {})

getCachedProducts(s, st, cacheKey, options, failAt) ==
  LET key == generateKey(ListKey(cacheKey), options.prefix)
      cached == Get(s, key)
  IN IF failAt = 1 THEN Thrown(s, st, RedisError, {})
     ELSE IF cached # Null
     THEN Returned(s, updateStats(st, TRUE, FALSE, FALSE), Some(ParseProducts(cached[1])), {})
     ELSE Returned(s, updateStats(st, FALSE, FALSE, FALSE), Null, {})

\* Variant: one invalidation deletes the hash key only.
InvalidateHashKeyOnly(id, options) == {generateHashKey(id, options.prefix)}

\* The two keys one invalidation deletes: the hash key and the string key.
InvalidateKeys(id, options) ==
  {generateHashKey(id, options.prefix), generateKey(SingleKey(id), options.prefix)}

invalidateProduct(s, st, id, options, failAt) ==
  IF failAt = 1 THEN Thrown(s, st, RedisError, {})
  ELSE [Returned(Del(s, InvalidateKeys(id, options)), st, Null, {})
          EXCEPT !.deleted = DelCount(s, InvalidateKeys(id, options)), !.dels = 1]

\* The two patterns of a list invalidation, each ending in "*".
ListPatterns(options) ==
  <<<<PrefixOr(options.prefix, CACHE_PREFIX), ":", "list", ":">>,
    <<PrefixOr(options.prefix, LIST_PREFIX), ":">>>>

\* Commands: 1 SCAN of the first pattern, 2 DEL of its keys (skipped when
\* there are none), 3 SCAN of the second pattern, 4 DEL of its keys.
invalidateProductLists(s, st, options, failAt) ==
  LET patterns == ListPatterns(options)
      keys1 == scanKeys(s, patterns[1])
      s1 == IF keys1 # {} THEN Del(s, keys1) ELSE s
      keys2 == scanKeys(s1, patterns[2])
      s2 == IF keys2 # {} THEN Del(s1, keys2) ELSE s1
      dels1 == IF keys1 # {} THEN 1 ELSE 0
      dels2 == IF keys2 # {} THEN 1 ELSE 0
  IN IF failAt = 1 THEN Thrown(s, st, RedisError, {})
     ELSE IF failAt = 2 /\ keys1 # {} THEN [Thrown(s, st, RedisError, {}) EXCEPT !.dels = 1]
     ELSE IF failAt = 3 THEN [Thrown(s1, st, RedisError, {}) EXCEPT !.dels = dels1]
     ELSE IF failAt = 4 /\ keys2 # {}
     THEN [Thrown(s1, st, RedisError, {}) EXCEPT !.dels = dels1 + 1]
     ELSE [Returned(s2, st, Null, {})
             EXCEPT !.deleted = DelCount(s, keys1) + DelCount(s1, keys2),
                    !.dels = dels1 + dels2]

\* Variant: a partial update rewrites every field, empty when not supplied.
HashUpdatesReplace(fields) ==
  [f \in {"name", "price", "category", "cachedAt"} |->
     IF f = "cachedAt" THEN NowISO
     ELSE IF f \notin DOMAIN fields THEN <<>>
     ELSE IF f = "price" THEN PriceToString(fields[f])
     ELSE fields[f]]

\* The fields of one partial update: those supplied, as text, and cachedAt.
HashUpdates(fields) ==
  [f \in ((DOMAIN fields) \cap {"name", "price", "category"}) \cup {"cachedAt"} |->
     IF f = "cachedAt" THEN NowISO
     ELSE IF f = "price" THEN PriceToString(fields[f])
     ELSE fields[f]]

updateProductHash(s, st, id, fields, options, failAt) ==
  LET hashKey == generateHashKey(id, options.prefix)
      updates == HashUpdates(fields)
  IN IF DOMAIN updates # {}
     THEN IF failAt = 1 THEN Thrown(s, st, RedisError, {})
          ELSE Returned(HSet(s, hashKey, updates), st, Null, DOMAIN updates)
     ELSE Returned(s, st, Null, {})

(***************************************************************************)
(* Inputs of the exploration.                                              *)
(***************************************************************************)
NoOptions == [ttl |-> Undef, prefix |-> Undef, useHash |-> Undef]

StringMode == [ttl |-> Undef, prefix |-> Undef, useHash |-> Some(FALSE)]

CustomHash == [ttl |-> Some(30), prefix |-> Some("custom"), useHash |-> Some(TRUE)]

CustomString == [ttl |-> Undef, prefix |-> Some("custom"), useHash |-> Some(FALSE)]

CustomPrefix == [ttl |-> Some(30), prefix |-> Some("custom"), useHash |-> Undef]

NoProduct == [id |-> 0, name |-> <<>>, price |-> 0, category |-> <<>>]

\* A product at 9.99, one whose texts carry white space at their ends, and
\* one with an empty name.
Widget == [id |-> 1, name |-> <<"a">>, price |-> 999, category |-> <<"c">>]

Padded == [id |-> 1, name |-> <<" ", "b">>, price |-> 0, category |-> <<"d", " ">>]

Nameless == [id |-> 2, name |-> <<>>, price |-> 1250, category |-> <<"c">>]

\* An entity that was never saved (id 0) and one with a negative price.
Unsaved == [id |-> 0, name |-> <<"u">>, price |-> 100, category |-> <<"c">>]

Refund == [id |-> 2, name |-> <<"r">>, price |-> -550, category |-> <<"c">>]

Products == {Widget, Padded, Nameless, Unsaved, Refund}

CacheProductInputs ==
  {<<Widget, NoOptions>>, <<Widget, StringMode>>, <<Widget, CustomHash>>,
   <<Widget, CustomString>>, <<Padded, NoOptions>>, <<Padded, StringMode>>,
   <<Nameless, NoOptions>>, <<Unsaved, NoOptions>>, <<Refund, NoOptions>>}

GetCachedProductInputs ==
  {<<1, NoOptions>>, <<1, StringMode>>, <<1, CustomHash>>, <<1, CustomString>>,
   <<2, NoOptions>>, <<0, NoOptions>>}

InvalidateProductInputs == {<<1, NoOptions>>, <<1, CustomPrefix>>, <<2, NoOptions>>}

\* Partial<Product> values handed to updateProductHash.
NamePatch == [name |-> <<"X", " ">>]

PlainNamePatch == [name |-> <<"X">>]

PricePatch == [price |-> 1250]

FullPatch == [id |-> 1, name |-> <<"Y">>, price |-> 5, category |-> <<"e">>]

UpdateProductHashInputs ==
  {<<1, NoFields, NoOptions>>, <<1, NamePatch, NoOptions>>, <<1, PricePatch, NoOptions>>,
   <<1, FullPatch, NoOptions>>, <<1, PlainNamePatch, CustomPrefix>>,
   <<2, FullPatch, NoOptions>>}

CacheProductsInputs == {<<<<Widget>>, <<"q1">>, NoOptions>>, <<<<>>, <<"q1">>, CustomPrefix>>}

GetCachedProductsInputs == {<<<<"q1">>, NoOptions>>, <<<<"q1">>, CustomPrefix>>}

InvalidateProductListsInputs == {NoOptions, CustomPrefix}

(***************************************************************************)
(* One call of a cache operation at a time, attempt by attempt.            *)
(***************************************************************************)
NoError == [name |-> "", operation |-> "", originalError |-> ""]

Idle ==
  [pc |-> "idle", op |-> "", id |-> 0, product |-> NoProduct, fields |-> NoFields,
   products |-> <<>>, cacheKey |-> <<>>, options |-> NoOptions,
   attempt |-> 0, delayMs |-> initialDelay, sleeps |-> <<>>, lastError |-> "",
   ok |-> FALSE, result |-> Null, thrown |-> NoError, written |-> {},
   deleted |-> 0, before |-> Null, tries |-> 0, raised |-> "", stats0 |-> ZeroStats,
   readBack |-> Null, dels |-> 0]

NoPrev ==
  [op |-> "", id |-> 0, product |-> NoProduct, fields |-> NoFields,
   options |-> NoOptions, deleted |-> 0, before |-> Null]

Summary(c) ==
  [op |-> c.op, id |-> c.id, product |-> c.product, fields |-> c.fields,
   options |-> c.options, deleted |-> c.deleted, before |-> c.before]

ZeroObs == [hitCalls |-> 0, missCalls |-> 0, failed |-> FALSE]

EmptyStore == [k \in {} |-> HashEntry(NoFields, NoExpiry)]

\* The catalog service between two operations.  fromDb is what persistence
\* answered in the operation (dbError the code of the error it raised),
\* cached what its cache read returned, engine
\* the engine operations it invoked, overtaken whether another request ran
\* while it waited; n the operations begun so far and returned the updates
\* and deletions (operation and id) that have returned an entity or true;
\* query the options of a list query and served the list queries begun so
\* far, each with the cache key generated for it.
NoQuery == [page |-> Undef, limit |-> Undef, category |-> Undef, name |-> Undef]

ServiceIdle ==
  [op |-> "", pc |-> "idle", id |-> 0, data |-> NoFields, fromDb |-> Null,
   readOk |-> TRUE, cached |-> Null, outcome |-> "none", result |-> Null,
   error |-> "", dbError |-> "", dbCalls |-> 0, engine |-> <<>>, warnings |-> 0,
   overtaken |-> FALSE, n |-> 0, returned |-> {}, query |-> NoQuery, served |-> {}]

\* The products table: its rows by id and the last id generated.
EmptyDb == [rows |-> [i \in {} |-> NoProduct], seq |-> 0]

\* productConfig with no environment variable set: every flag is on.
DefaultConfig ==
  [asyncCacheEnabled |-> TRUE, enableCacheInvalidation |-> TRUE,
   enableProductListInvalidation |-> TRUE]

\* The connection before any call or event: n counts the calls of connect
\* and disconnect, method, called, failed and outcome describe the last
\* of them, clientConnects and clientDisconnects count the calls of the
\* underlying client, logged the errors logged; lastEvent is the last
\* event emitted and lastLifecycle the last of ready, error and end.
ConnectionIdle ==
  [n |-> 0, method |-> "", called |-> FALSE, failed |-> FALSE, outcome |-> "none",
   clientConnects |-> 0, clientDisconnects |-> 0, logged |-> 0,
   lastEvent |-> "none", lastLifecycle |-> "none"]

\* The product controller before any request: handler and pc describe the
\* request being handled (id and product its subject), reported is what
\* the catalog service answered, issued the facade methods the request has
\* called, in order, and events the events emitted so far; facade0,
\* events0 and svc0 the numbers of facade calls, events and service
\* operations before it, error the error its catch block received, status
\* the status of its response and n the requests received so far.
HttpIdle ==
  [handler |-> "", pc |-> "idle", id |-> 0, body |-> NoFields, product |-> NoProduct,
   reported |-> "none", issued |-> <<>>, events |-> <<>>, facade0 |-> 0,
   events0 |-> 0, svc0 |-> 0, error |-> "", status |-> 0, n |-> 0]

\* The state after construction: statistics at zero, isConnected false.
Start ==
  /\ store = EmptyStore
  /\ connected = FALSE
  /\ stats = ZeroStats
  /\ call = Idle
  /\ prev = NoPrev
  /\ nCalls = 0
  /\ obs = ZeroObs
  /\ facade = <<>>
  /\ service = ServiceIdle
  /\ parked = <<>>
  /\ conn = ConnectionIdle
  /\ http = HttpIdle

\* A backend that may fail at any moment.
Init == Start /\ reliable = FALSE /\ productConfig = DefaultConfig /\ db = EmptyDb

\* A backend that stays up while a call runs and executes every command.
InitReliable == Start /\ reliable = TRUE /\ productConfig = DefaultConfig /\ db = EmptyDb

CallLimit == IF reliable THEN MaxCalls ELSE MaxCallsUnreliable

IsRead(op) == op \in {"getCachedProduct", "getCachedProducts"}

\* A caller invokes an operation: executeWithRetry starts with no error
\* recorded and delayMs = initialDelay.  prev remembers the write that
\* returned just before, if any.
Begin(c) ==
  /\ call.pc # "run"
  /\ nCalls < CallLimit
  /\ reliable => connected
  /\ nCalls' = nCalls + 1
  /\ prev' = IF call.pc = "done" /\ call.ok /\ ~IsRead(call.op) THEN Summary(call) ELSE NoPrev
  /\ call' = [c EXCEPT !.pc = "run", !.stats0 = stats]
  /\ UNCHANGED <<store, connected, stats, obs, reliable, upper>>

CallCacheProduct ==
  \E in \in CacheProductInputs :
    Begin([Idle EXCEPT !.op = "cacheProduct", !.id = in[1].id, !.product = in[1],
                       !.options = in[2]])

CallGetCachedProduct ==
  \E in \in GetCachedProductInputs :
    Begin([Idle EXCEPT !.op = "getCachedProduct", !.id = in[1], !.options = in[2]])

CallCacheProducts ==
  \E in \in CacheProductsInputs :
    Begin([Idle EXCEPT !.op = "cacheProducts", !.products = in[1], !.cacheKey = in[2],
                       !.options = in[3]])

CallGetCachedProducts ==
  \E in \in GetCachedProductsInputs :
    Begin([Idle EXCEPT !.op = "getCachedProducts", !.cacheKey = in[1], !.options = in[2]])

CallInvalidateProduct ==
  \E in \in InvalidateProductInputs :
    Begin([Idle EXCEPT !.op = "invalidateProduct", !.id = in[1], !.options = in[2]])

CallInvalidateProductLists ==
  \E o \in InvalidateProductListsInputs :
    Begin([Idle EXCEPT !.op = "invalidateProductLists", !.options = o])

CallUpdateProductHash ==
  \E in \in UpdateProductHashInputs :
    Begin([Idle EXCEPT !.op = "updateProductHash", !.id = in[1], !.fields = in[2],
                       !.options = in[3]])

\* The operation closure handed to executeWithRetry by the call c.
Operation(c, s, st, failAt) ==
  CASE c.op = "cacheProduct" -> cacheProduct(s, st, c.product, c.options, failAt)
    [] c.op = "getCachedProduct" -> getCachedProduct(s, st, c.id, c.options, failAt)
    [] c.op = "cacheProducts" -> cacheProducts(s, st, c.products, c.cacheKey, c.options, failAt)
    [] c.op = "getCachedProducts" -> getCachedProducts(s, st, c.cacheKey, c.options, failAt)
    [] c.op = "invalidateProduct" -> invalidateProduct(s, st, c.id, c.options, failAt)
    [] c.op = "invalidateProductLists" -> invalidateProductLists(s, st, c.options, failAt)
    [] c.op = "updateProductHash" -> updateProductHash(s, st, c.id, c.fields, c.options, failAt)

\* Variant: the operation runs without the connection being checked.
ensureConnectionSkipped(c, s, st, failAt) == Operation(c, s, st, failAt)

\* ensureConnection, then the operation.
ensureConnection(c, s, st, failAt) ==
  IF connected THEN Operation(c, s, st, failAt) ELSE Thrown(s, st, NotConnected, {})

\* The backend commands of one attempt that may throw.
FailPoints(op) ==
  IF reliable THEN {0}
  ELSE CASE op = "cacheProduct" -> 0..2
         [] op = "invalidateProductLists" -> 0..4
         [] OTHER -> 0..1

\* Pieces of executeWithRetry.
RetryStats(st) == updateStats(st, FALSE, FALSE, TRUE)

\* Variant: the delay is not multiplied between attempts.
NextDelayConstant(delayMs) == Min(delayMs, maxDelay)

NextDelay(delayMs) == Min(delayMs * backoffFactor, maxDelay)

ExhaustedStats(st) == updateStats(st, FALSE, TRUE, FALSE)

\* Variant: the loop gives up one attempt early.
LastAttemptEarly(attempt) == attempt = maxRetries - 1

LastAttempt(attempt) == attempt = maxRetries

\* lastError = error as Error
RecordError(lastError, error) == error

\* new CacheOperationError(message, operationName, lastError)
OperationError(operationName, lastError) ==
  [name |-> "CacheOperationError", operation |-> operationName,
   originalError |-> lastError]

\* What a read of the hash of id would reconstruct (used to remember the
\* cached product a partial update starts from).
HashView(s, id, options) ==
  reconstructProductFromHash(HGetAll(s, generateHashKey(id, options.prefix))).product

\* The end of one pass of the retry loop: r is the outcome of the attempt,
\* c the call with its sleep and delay of this pass recorded.
Settle(op, c, r) ==
  LET c1 == [c EXCEPT !.lastError = IF r.ok THEN @ ELSE RecordError(@, r.err),
                      !.raised = r.err,
                      !.tries = @ + 1,
                      !.written = r.written,
                      !.deleted = r.deleted,
                      !.dels = r.dels]
  IN /\ store' = r.store
     /\ IF r.ok
        THEN /\ stats' = r.stats
             /\ call' = [c1 EXCEPT !.pc = "done", !.ok = TRUE, !.result = r.result,
                                   !.before = IF op = "updateProductHash"
                                              THEN HashView(store, c.id, c.options)
                                              ELSE Null]
             /\ obs' = [obs EXCEPT
                          !.hitCalls = IF IsRead(op) /\ r.result # Null THEN @ + 1 ELSE @,
                          !.missCalls = IF IsRead(op) /\ r.result = Null THEN @ + 1 ELSE @]
        ELSE /\ obs' = [obs EXCEPT !.failed = TRUE]
             /\ IF LastAttempt(c.attempt)
                THEN /\ stats' = ExhaustedStats(r.stats)
                     /\ call' = [c1 EXCEPT !.pc = "done", !.ok = FALSE,
                                           !.thrown = OperationError(op, c1.lastError)]
                ELSE /\ stats' = r.stats
                     /\ call' = [c1 EXCEPT !.attempt = @ + 1]

\* One pass of the retry loop of executeWithRetry: on a retry the statistics
\* are updated and the delay is slept and multiplied, then the operation runs.
Attempt(op) ==
  /\ call.pc = "run"
  /\ call.op = op
  /\ \E failAt \in FailPoints(op) :
       IF call.attempt > 0
       THEN Settle(op,
                   [call EXCEPT !.sleeps = Append(@, call.delayMs),
                                !.delayMs = NextDelay(@)],
                   ensureConnection(call, store, RetryStats(stats), failAt))
       ELSE Settle(op, call, ensureConnection(call, store, stats, failAt))
  /\ UNCHANGED <<connected, prev, nCalls, reliable, upper>>

AttemptCacheProduct == Attempt("cacheProduct")

AttemptGetCachedProduct == Attempt("getCachedProduct")

AttemptCacheProducts == Attempt("cacheProducts")

AttemptGetCachedProducts == Attempt("getCachedProducts")

AttemptInvalidateProduct == Attempt("invalidateProduct")

AttemptInvalidateProductLists == Attempt("invalidateProductLists")

AttemptUpdateProductHash == Attempt("updateProductHash")

(***************************************************************************)
(* The environment: connection events and the expiry of keys.              *)
(***************************************************************************)
\* A reliable backend does not drop the connection under a running call.
MayDrop == reliable => call.pc # "run"

OnReady ==
  /\ connected' = TRUE
  /\ UNCHANGED <<store, stats, call, prev, nCalls, obs, reliable, upper>>

OnError ==
  /\ MayDrop
  /\ connected' = FALSE
  /\ UNCHANGED <<store, stats, call, prev, nCalls, obs, reliable, upper>>

OnEnd ==
  /\ MayDrop
  /\ connected' = FALSE
  /\ UNCHANGED <<store, stats, call, prev, nCalls, obs, reliable, upper>>

\* A key whose expiry is set runs out of time.  Time has passed: the next
\* call no longer follows the previous one immediately.
KeyExpires ==
  /\ \E k \in DOMAIN store :
       /\ store[k].ttl > 0
       /\ store' = Del(store, {k})
  /\ prev' = NoPrev
  /\ call' = IF call.pc = "done" THEN Idle ELSE call
  /\ UNCHANGED <<connected, stats, nCalls, obs, reliable, upper>>

Next ==
  \/ CallCacheProduct
  \/ CallGetCachedProduct
  \/ CallCacheProducts
  \/ CallGetCachedProducts
  \/ CallInvalidateProduct
  \/ CallInvalidateProductLists
  \/ CallUpdateProductHash
  \/ AttemptCacheProduct
  \/ AttemptGetCachedProduct
  \/ AttemptCacheProducts
  \/ AttemptGetCachedProducts
  \/ AttemptInvalidateProduct
  \/ AttemptInvalidateProductLists
  \/ AttemptUpdateProductHash
  \/ OnReady
  \/ OnError
  \/ OnEnd
  \/ KeyExpires

Spec == Init /\ [][Next]_vars

SpecReliable == InitReliable /\ [][Next]_vars

(***************************************************************************)
(* Properties.                                                             *)
(***************************************************************************)
Done(op) == call.pc = "done" /\ call.op = op

SameModeAndPrefix(o1, o2) ==
  /\ UseHash(o1) = UseHash(o2)
  /\ PrefixOr(o1.prefix, "") = PrefixOr(o2.prefix, "")

SamePrefix(o1, o2) == PrefixOr(o1.prefix, "") = PrefixOr(o2.prefix, "")

\* A valid entity in the sense of the write contract: positive id, a name,
\* a price that is not negative, a category that is not empty.
ValidEntity(e) == e.id > 0 /\ e.price >= 0 /\ e.category # <<>>

\* getCachedProduct has returned right after a successful cacheProduct of
\* the same id under the same mode and prefix.
ReadAfterCache ==
  /\ Done("getCachedProduct")
  /\ prev.op = "cacheProduct"
  /\ prev.id = call.id
  /\ SameModeAndPrefix(prev.options, call.options)
  /\ ValidEntity(prev.product)

\* C1, as stated: cacheProduct(E) followed immediately by getCachedProduct(E.id)
\* with the same mode and prefix returns an entity whose id, name, price and
\* category equal those of E, for every valid E.
C1_RoundTripExact ==
  ReadAfterCache =>
    /\ call.ok
    /\ call.result # Null
    /\ call.result[1].id = prev.product.id
    /\ call.result[1].name = prev.product.name
    /\ call.result[1].price = prev.product.price
    /\ call.result[1].category = prev.product.category

\* C1, amended: the round trip returns id and price equal to those of E; in
\* string mode name and category are equal to those of E; in hash mode they
\* are those of E without leading and trailing white space, and the name of
\* E must not be empty.
C1_RoundTrip ==
  (ReadAfterCache /\ (UseHash(call.options) => prev.product.name # <<>>)) =>
    /\ call.ok
    /\ call.result # Null
    /\ call.result[1].id = prev.product.id
    /\ call.result[1].price = prev.product.price
    /\ call.result[1].name =
         IF UseHash(call.options) THEN Trim(prev.product.name) ELSE prev.product.name
    /\ call.result[1].category =
         IF UseHash(call.options) THEN Trim(prev.product.category) ELSE prev.product.category

C1_Witness ==
  /\ ReadAfterCache
  /\ UseHash(call.options)
  /\ prev.product = Padded
  /\ call.ok
  /\ call.result = Some([id |-> 1, name |-> <<"b">>, price |-> 0, category |-> <<"d">>])

RequiredFields == {"id", "name", "price", "category"}

\* C2: once a cache operation has completed, every hash entry in the cache
\* carries the four required fields id, name, price and category.
C2_NoPartialHash ==
  call.pc # "run" =>
    \A k \in DOMAIN store :
      store[k].type = "hash" => RequiredFields \subseteq DOMAIN store[k].fields

\* getCachedProduct has returned right after a successful invalidateProduct
\* of the same id under the same prefix.
ReadAfterInvalidate ==
  /\ Done("getCachedProduct")
  /\ prev.op = "invalidateProduct"
  /\ prev.id = call.id
  /\ SamePrefix(prev.options, call.options)

\* C3: invalidateProduct(id) followed by getCachedProduct(id) yields a miss
\* (null), in hash mode and in string mode, whichever representation was
\* populated before.
C3_InvalidateThenMiss ==
  ReadAfterInvalidate => (call.ok /\ call.result = Null)

\* Both representations were populated, one invalidation removed both, and
\* the read in string mode missed.
C3_Witness ==
  /\ ReadAfterInvalidate
  /\ prev.deleted = 2
  /\ ~UseHash(call.options)
  /\ call.ok
  /\ call.result = Null

\* getCachedProduct (hash mode) has returned right after a successful
\* updateProductHash of the same id under the same prefix, the hash of that
\* id being cached and readable before the update.
ReadAfterUpdate ==
  /\ Done("getCachedProduct")
  /\ UseHash(call.options)
  /\ prev.op = "updateProductHash"
  /\ prev.id = call.id
  /\ SamePrefix(prev.options, call.options)
  /\ prev.before # Null

Supplied(fields) == (DOMAIN fields) \cap {"name", "price", "category"}

\* The fields one updateProductHash hands to HSET: those supplied and cachedAt.
WritesOnlySupplied ==
  (Done("updateProductHash") /\ call.ok) =>
    call.written = Supplied(call.fields) \cup {"cachedAt"}

\* C4, as stated: updateProductHash(id, {name: X}) followed by
\* getCachedProduct(id) yields name X with price and category unchanged;
\* only the supplied fields plus cachedAt are written.
C4_MergeExact ==
  /\ WritesOnlySupplied
  /\ (ReadAfterUpdate /\ Supplied(prev.fields) = {"name"}) =>
       /\ call.ok
       /\ call.result # Null
       /\ call.result[1].name = prev.fields["name"]
       /\ call.result[1].price = prev.before[1].price
       /\ call.result[1].category = prev.before[1].category

\* C4, amended: the read yields, for each supplied field, the supplied value
\* (name and category without leading and trailing white space) and, for
\* each field not supplied, the value cached before; only the supplied
\* fields plus cachedAt are written, cachedAt alone when none is supplied.
C4_Merge ==
  /\ WritesOnlySupplied
  /\ ReadAfterUpdate =>
       /\ call.ok
       /\ call.result # Null
       /\ call.result[1].id = prev.before[1].id
       /\ call.result[1].name =
            IF "name" \in DOMAIN prev.fields THEN Trim(prev.fields["name"])
            ELSE prev.before[1].name
       /\ call.result[1].price =
            IF "price" \in DOMAIN prev.fields THEN prev.fields["price"]
            ELSE prev.before[1].price
       /\ call.result[1].category =
            IF "category" \in DOMAIN prev.fields THEN Trim(prev.fields["category"])
            ELSE prev.before[1].category

C4_Witness ==
  /\ ReadAfterUpdate
  /\ prev.fields = NamePatch
  /\ prev.before = Some(Widget)
  /\ call.ok
  /\ call.result = Some([id |-> 1, name |-> <<"X">>, price |-> 999, category |-> <<"c">>])

\* C5: an operation whose first two attempts fail and whose third succeeds
\* completes successfully, adds exactly 2 to retries, leaves errors
\* unchanged, and sleeps 100 ms then 200 ms.
C5_RetrySuccess ==
  (call.pc = "done" /\ call.ok /\ call.tries = 3) =>
    /\ stats.retries = call.stats0.retries + 2
    /\ stats.errors = call.stats0.errors
    /\ call.sleeps = <<100, 200>>

C5_Witness ==
  /\ Done("cacheProduct")
  /\ call.ok
  /\ call.tries = 3
  /\ call.sleeps = <<100, 200>>

\* C6: an operation that fails on every attempt is attempted exactly
\* maxRetries + 1 = 4 times, sleeps 100, 200 and 400 ms (never more than
\* maxDelay), adds exactly 1 to errors, and fails with a CacheOperationError
\* that names the operation and wraps the error of the last attempt.
C6_RetryExhaustion ==
  (call.pc = "done" /\ ~call.ok) =>
    /\ call.tries = maxRetries + 1
    /\ call.tries = 4
    /\ call.sleeps = <<100, 200, 400>>
    /\ \A i \in 1..Len(call.sleeps) : call.sleeps[i] <= maxDelay
    /\ stats.errors = call.stats0.errors + 1
    /\ call.thrown.name = "CacheOperationError"
    /\ call.thrown.operation = call.op
    /\ call.thrown.originalError = call.raised

\* Exhausted after a connection failure followed by backend failures.
C6_Witness ==
  /\ Done("invalidateProduct")
  /\ ~call.ok
  /\ call.tries = 4
  /\ call.thrown.originalError = RedisError
  /\ connected

\* C7: every call of getCachedProduct or getCachedProducts adds exactly 1 to
\* operations, whatever its outcome.
C7_OneOperationPerRead ==
  (call.pc = "done" /\ IsRead(call.op)) =>
    stats.operations = call.stats0.operations + 1

\* The key a read of id consults under the given options.
ReadKey(id, options) ==
  IF UseHash(options) THEN generateHashKey(id, options.prefix)
  ELSE generateKey(SingleKey(id), options.prefix)

\* C8: for an id with no cached entry, connection up and no backend failure,
\* getCachedProduct returns null, adds exactly 1 to misses and to
\* operations, and leaves hits, errors and retries unchanged.
C8_MissCounts ==
  (/\ Done("getCachedProduct")
   /\ call.tries = 1
   /\ ReadKey(call.id, call.options) \notin DOMAIN store) =>
    /\ call.ok
    /\ call.result = Null
    /\ stats.misses = call.stats0.misses + 1
    /\ stats.operations = call.stats0.operations + 1
    /\ stats.hits = call.stats0.hits
    /\ stats.errors = call.stats0.errors
    /\ stats.retries = call.stats0.retries

\* A miss on id 2 while other entries are cached and reads were counted.
C8_Witness ==
  /\ Done("getCachedProduct")
  /\ call.tries = 1
  /\ call.id = 2
  /\ ReadKey(call.id, call.options) \notin DOMAIN store
  /\ DOMAIN store # {}
  /\ call.stats0.hits = 1
  /\ call.result = Null
  /\ stats.misses = call.stats0.misses + 1

\* C9: a cache write (cacheProduct, cacheProducts, updateProductHash,
\* invalidateProduct, invalidateProductLists) leaves hits and misses
\* unchanged, also when it is retried or fails.
C9_WritesAreNotReads ==
  (call.pc = "done" /\ ~IsRead(call.op)) =>
    /\ stats.hits = call.stats0.hits
    /\ stats.misses = call.stats0.misses

IsNumeral(text) == text # <<>> /\ \A i \in 1..Len(text) : IsDigit(text[i])

\* A text that is the decimal numeral of a number that is not negative:
\* digits, then possibly a point and digits.
IsDecimal(text) ==
  \E n \in 1..Len(text) :
    /\ IsNumeral(SubSeq(text, 1, n))
    /\ n = Len(text) \/ (text[n + 1] = "." /\ IsNumeral(SubSeq(text, n + 2, Len(text))))

\* A hash that is not empty and is not the hash of a product: a required
\* field is missing or empty, the id is not a positive number, or the price
\* is not a number that is not negative.
Malformed(h) ==
  /\ DOMAIN h # {}
  /\ \/ \E f \in RequiredFields : f \notin DOMAIN h \/ h[f] = <<>>
     \/ ~IsNumeral(h["id"])
     \/ DigitsValue(h["id"]) = 0
     \/ ~IsDecimal(h["price"])

ValidationErrors ==
  {"Invalid product hash data: missing required fields",
   "Invalid product hash data: invalid ID",
   "Invalid product hash data: invalid price"}

\* getCachedProduct in hash mode has returned or thrown, and the hash it
\* read is malformed.
ReadOfMalformedHash ==
  /\ Done("getCachedProduct")
  /\ UseHash(call.options)
  /\ Malformed(HGetAll(store, generateHashKey(call.id, call.options.prefix)))

AttemptStep == call.pc = "run" /\ call'.tries = call.tries + 1

\* C12: every attempt begins with the connectivity check.  An attempt that
\* finds the connection down issues no backend command and raises the
\* connection error, which is retried, or, on attempt maxRetries + 1, ends
\* the operation in failure; an attempt that finds the connection up and
\* meets no failure completes the operation, whatever the attempts before
\* it found.
C12_ConnectionCheckedEachAttempt ==
  [][AttemptStep =>
       IF ~connected
       THEN /\ store' = store
            /\ call'.written = {}
            /\ call'.raised = NotConnected
            /\ call'.lastError = NotConnected
            /\ IF call.attempt < maxRetries
               THEN call'.pc = "run" /\ call'.attempt = call.attempt + 1
               ELSE /\ call'.pc = "done"
                    /\ ~call'.ok
                    /\ call'.tries = maxRetries + 1
                    /\ call'.thrown.originalError = NotConnected
       ELSE call'.raised = "" => (call'.pc = "done" /\ call'.ok)]_vars

\* cacheProduct found the connection down on its second attempt at least,
\* found it up on its third and completed.
C12_Witness ==
  /\ Done("cacheProduct")
  /\ call.ok
  /\ call.tries = 3
  /\ call.lastError = NotConnected
  /\ call.written # {}

(***************************************************************************)
(* AsyncCacheService.  facade holds one record per call of a facade        *)
(* method, in call order: the promise handed to the caller (settled), the  *)
(* task deferred with setImmediate (pc: none, queued, awaiting an engine   *)
(* operation, finished), the engine operations the task has invoked and    *)
(* the warnings it has logged.  The engine serves one call at a time: a    *)
(* task whose turn has come starts when the engine is free.                *)
(***************************************************************************)
MaxFacadeCalls == 2

Flags == {"asyncCacheEnabled", "enableCacheInvalidation", "enableProductListInvalidation"}

\* productConfig as the environment may set it.
Configs == [Flags -> BOOLEAN]

\* Variant: every method is governed by asyncCacheEnabled.
GoverningFlagShared(config, method) == config.asyncCacheEnabled

\* The flag a facade method tests on entry.
GoverningFlag(config, method) ==
  CASE method = "cacheProduct" -> config.asyncCacheEnabled
    [] method = "invalidateProduct" -> config.enableCacheInvalidation
    [] method = "invalidateProductLists" -> config.enableProductListInvalidation
    [] method = "reCacheProduct" -> config.asyncCacheEnabled

FacadeCall(method, product, id, useHash) ==
  [method |-> method, product |-> product, id |-> id, useHash |-> useHash,
   settled |-> "pending", pc |-> "none", invoked |-> <<>>, warnings |-> 0,
   failure |-> ""]

\* setImmediate(callback): the task joins the queue of deferred callbacks.
Deferred(rec) == [rec EXCEPT !.pc = "queued"]

\* Variant: the promise of the method settles with its task, not before.
ReturnedWithTask(rec) ==
  IF rec.pc = "queued" THEN rec ELSE [rec EXCEPT !.settled = "resolved"]

\* The async method returns: its promise resolves with undefined.
ReturnedVoid(rec) == [rec EXCEPT !.settled = "resolved"]

\* What a facade method leaves behind: nothing deferred when its flag is
\* off, its callback deferred otherwise; the promise resolves either way.
Dispatched(rec) ==
  IF ~GoverningFlag(productConfig, rec.method)
  THEN ReturnedVoid(rec)
  ELSE ReturnedVoid(Deferred(rec))

\* The body of a facade method, run to its return in one piece.
FacadeMethod(rec) ==
  /\ Len(facade) < MaxFacadeCalls
  /\ facade' = Append(facade, Dispatched(rec))
  /\ UNCHANGED <<store, connected, stats, call, prev, nCalls, obs, reliable, productConfig, service, db, parked, conn, http>>

FacadeCacheProduct ==
  \E useHash \in {Undef, Some(FALSE)} :
    FacadeMethod(FacadeCall("cacheProduct", Widget, 0, useHash))

FacadeInvalidateProduct == FacadeMethod(FacadeCall("invalidateProduct", NoProduct, 1, Undef))

FacadeInvalidateProductLists ==
  FacadeMethod(FacadeCall("invalidateProductLists", NoProduct, 0, Undef))

FacadeReCacheProduct == FacadeMethod(FacadeCall("reCacheProduct", Widget, 0, Undef))

\* The engine call a task makes: op with the arguments the callback passes.
TaskCall(rec, op) ==
  CASE op = "cacheProduct" ->
         [Idle EXCEPT !.op = op, !.id = rec.product.id, !.product = rec.product,
                      !.options = [NoOptions EXCEPT !.useHash =
                                     IF rec.method = "reCacheProduct" \/ rec.useHash = Undef
                                     THEN Some(TRUE) ELSE rec.useHash]]
    [] op = "invalidateProduct" -> [Idle EXCEPT !.op = op, !.id = rec.id]
    [] op = "invalidateProductLists" -> [Idle EXCEPT !.op = op]

\* The first engine operation of the callback of a method.
FirstOp(method) == IF method = "reCacheProduct" THEN "cacheProduct" ELSE method

\* The engine operation is invoked: executeWithRetry starts.
Invoked(c) == [c EXCEPT !.pc = "run", !.stats0 = stats]

\* The oldest deferred callback starts and invokes its first operation.
TaskStart ==
  \E i \in DOMAIN facade :
    /\ facade[i].pc = "queued"
    /\ \A j \in DOMAIN facade : facade[j].pc # "awaiting" /\ (j < i => facade[j].pc # "queued")
    /\ call.pc # "run"
    /\ call' = Invoked(TaskCall(facade[i], FirstOp(facade[i].method)))
    /\ facade' = [facade EXCEPT ![i].pc = "awaiting",
                                ![i].invoked = Append(@, FirstOp(facade[i].method))]
    /\ UNCHANGED <<store, connected, stats, prev, nCalls, obs, reliable, productConfig, service, db, parked, conn, http>>

\* Variant: the list invalidation of a re-cache ignores its flag.
FollowedByListsAlways(config, rec, op) ==
  rec.method = "reCacheProduct" /\ op = "cacheProduct"

\* Whether the callback goes on to invalidateProductLists after op.
FollowedByLists(config, rec, op) ==
  /\ rec.method = "reCacheProduct"
  /\ op = "cacheProduct"
  /\ config.enableProductListInvalidation

\* Variant: the error of the task is not caught and rejects the promise.
TaskFailedUncaught(rec, error) ==
  [rec EXCEPT !.pc = "finished", !.settled = "rejected", !.failure = error.name]

\* catch (error) { console.warn(...) }
TaskFailed(rec, error) ==
  [rec EXCEPT !.pc = "finished", !.warnings = @ + 1, !.failure = error.name]

\* The awaited engine operation has settled: the callback resumes.
TaskResume ==
  \E i \in DOMAIN facade :
    /\ facade[i].pc = "awaiting"
    /\ call.pc = "done"
    /\ IF ~call.ok
       THEN /\ facade' = [facade EXCEPT ![i] = TaskFailed(@, call.thrown)]
            /\ call' = Idle
       ELSE IF FollowedByLists(productConfig, facade[i], call.op)
       THEN /\ facade' = [facade EXCEPT ![i].invoked = Append(@, "invalidateProductLists")]
            /\ call' = Invoked(TaskCall(facade[i], "invalidateProductLists"))
       ELSE /\ facade' = [facade EXCEPT ![i].pc = "finished"]
            /\ call' = Idle
    /\ UNCHANGED <<store, connected, stats, prev, nCalls, obs, reliable, productConfig, service, db, parked, conn, http>>

InitFacade == Start /\ reliable = FALSE /\ productConfig \in Configs /\ db = EmptyDb

NextFacade ==
  \/ FacadeCacheProduct
  \/ FacadeInvalidateProduct
  \/ FacadeInvalidateProductLists
  \/ FacadeReCacheProduct
  \/ TaskStart
  \/ TaskResume
  \/ AttemptCacheProduct
  \/ AttemptInvalidateProduct
  \/ AttemptInvalidateProductLists
  \/ OnReady
  \/ OnError
  \/ OnEnd

SpecFacade == InitFacade /\ [][NextFacade]_vars

\* The task of a record has been deferred.
Scheduled(rec) == rec.pc # "none"

\* C13: cacheProduct and reCacheProduct schedule work and invoke the engine
\* only if asyncCacheEnabled is true, invalidateProduct only if
\* enableCacheInvalidation is true, invalidateProductLists only if
\* enableProductListInvalidation is true; with its flag false a call returns
\* with nothing scheduled and the engine is never invoked for it.
C13_FlagGating ==
  /\ \A i \in DOMAIN facade :
       LET rec == facade[i]
           flag == CASE rec.method \in {"cacheProduct", "reCacheProduct"} ->
                          productConfig.asyncCacheEnabled
                     [] rec.method = "invalidateProduct" ->
                          productConfig.enableCacheInvalidation
                     [] rec.method = "invalidateProductLists" ->
                          productConfig.enableProductListInvalidation
       IN /\ Scheduled(rec) <=> flag
          /\ ~flag => (rec.invoked = <<>> /\ rec.settled = "resolved")
  /\ call.pc # "idle" => \E i \in DOMAIN facade : facade[i].pc = "awaiting"

\* With enableCacheInvalidation false and asyncCacheEnabled true, the task of
\* cacheProduct has run and invalidateProduct has scheduled nothing.
C13_Witness ==
  /\ Len(facade) = 2
  /\ facade[1].method = "cacheProduct"
  /\ facade[1].invoked = <<"cacheProduct">>
  /\ facade[1].pc = "finished"
  /\ facade[2].method = "invalidateProduct"
  /\ facade[2].pc = "none"
  /\ facade[2].settled = "resolved"

\* C14: a facade method whose flag is on returns a resolved promise with
\* its task deferred and no engine operation invoked; the engine operations
\* of a task are invoked in later steps, the promise being resolved already.
C14_NonBlockingDispatch ==
  [][/\ Len(facade') > Len(facade) =>
          /\ facade'[Len(facade')].settled = "resolved"
          /\ facade'[Len(facade')].invoked = <<>>
          /\ call' = call
          /\ store' = store
     /\ \A i \in DOMAIN facade :
          facade'[i].invoked # facade[i].invoked =>
            (facade[i].settled = "resolved" /\ facade'[i].settled = "resolved")]_vars

\* The promise has resolved while the engine is still retrying for the task.
C14_Witness ==
  \E i \in DOMAIN facade :
    /\ facade[i].settled = "resolved"
    /\ facade[i].pc = "awaiting"
    /\ call.pc = "run"
    /\ call.attempt = 2

\* C15: whatever fails inside a deferred task, the promise given to the
\* caller stays resolved; the failure ends the task with one warning.
C15_ErrorContainment ==
  \A i \in DOMAIN facade :
    /\ facade[i].settled = "resolved"
    /\ facade[i].failure # "" => (facade[i].pc = "finished" /\ facade[i].warnings = 1)
    /\ facade[i].failure = "" => facade[i].warnings = 0

\* The list invalidation of a re-cache task has failed after its retries.
C15_Witness ==
  \E i \in DOMAIN facade :
    /\ facade[i].method = "reCacheProduct"
    /\ facade[i].invoked = <<"cacheProduct", "invalidateProductLists">>
    /\ facade[i].failure = "CacheOperationError"
    /\ facade[i].warnings = 1
    /\ facade[i].settled = "resolved"

\* C16: a reCacheProduct task invokes cacheProduct first and
\* invalidateProductLists after it, and invalidateProductLists only when
\* enableProductListInvalidation is true.
C16_WriteBeforeListInvalidation ==
  \A i \in DOMAIN facade :
    facade[i].method = "reCacheProduct" =>
      /\ facade[i].invoked \in {<<>>, <<"cacheProduct">>,
                                <<"cacheProduct", "invalidateProductLists">>}
      /\ "invalidateProductLists" \in {facade[i].invoked[k] : k \in DOMAIN facade[i].invoked}
           => productConfig.enableProductListInvalidation

\* Both operations of a re-cache task were invoked and the task finished.
C16_Witness ==
  \E i \in DOMAIN facade :
    /\ facade[i].method = "reCacheProduct"
    /\ facade[i].invoked = <<"cacheProduct", "invalidateProductLists">>
    /\ facade[i].pc = "finished"
    /\ facade[i].failure = ""

(***************************************************************************)
(* ProductService.  One catalog operation at a time; each awaits the       *)
(* persistence collaborator and the engine operations it invokes.          *)
(***************************************************************************)
MaxServiceCalls == 2

MaxRequests == 3

MaxParked == 1

DEFAULT_PAGE == 1

DEFAULT_LIMIT == 10

MAX_LIMIT == 100

PRODUCTS_TTL == productTTL

PRODUCTS_KEY_PREFIX == "products"

\* text || '': an absent text and the empty text give the empty text.
TextOr(text) == IF text = Undef THEN <<>> ELSE text[1]

\* `${PRODUCTS_KEY_PREFIX}:list:${page}:${limit}:${category || ''}:${name || ''}`
generateProductsCacheKey(page, limit, category, name) ==
  <<PRODUCTS_KEY_PREFIX, ":", "list", ":">> \o IntToString(page) \o <<":">> \o
  IntToString(limit) \o <<":">> \o TextOr(category) \o <<":">> \o TextOr(name)

\* The destructuring defaults of the options and the clamped limit.
PageOf(options) == IF options.page = Undef THEN DEFAULT_PAGE ELSE options.page[1]

ActualLimit(options) ==
  Min(IF options.limit = Undef THEN DEFAULT_LIMIT ELSE options.limit[1], MAX_LIMIT)

\* The cache key of a list query.
CacheKeyOf(options) ==
  generateProductsCacheKey(PageOf(options), ActualLimit(options),
                           options.category, options.name)

\* The products table with one row.
OneRowDb == [rows |-> [i \in {1} |-> Widget], seq |-> 1]

\* repository.save(product)
DbSave(d, product) ==
  [d EXCEPT !.rows = [i \in (DOMAIN d.rows) \cup {product.id} |->
                        IF i = product.id THEN product ELSE d.rows[i]]]

\* repository.findOne({ where: { id } })
DbFindOne(d, id) == IF id \in DOMAIN d.rows THEN Some(d.rows[id]) ELSE Null

\* repository.delete(id)
DbDelete(d, id) == [d EXCEPT !.rows = [i \in (DOMAIN d.rows) \ {id} |-> d.rows[i]]]

\* orderBy('product.id', 'DESC')
RECURSIVE ByIdDesc(_)
ByIdDesc(rows) ==
  IF DOMAIN rows = {} THEN <<>>
  ELSE LET m == CHOOSE i \in DOMAIN rows : \A j \in DOMAIN rows : j <= i
       IN <<rows[m]>> \o ByIdDesc([i \in (DOMAIN rows) \ {m} |-> rows[i]])

\* A ProductListResponse; totalPages is Math.ceil(total / limit).
ListResponse(products, total, page, limit) ==
  [products |-> products, total |-> total, page |-> page, limit |-> limit,
   totalPages |-> (total + limit - 1) \div limit]

\* Object.assign(product, data)
Assigned(product, data) ==
  [f \in DOMAIN product |-> IF f \in DOMAIN data THEN data[f] ELSE product[f]]

\* Variant: a uniqueness violation is not told from the other failures.
PersistenceErrorUntold(op, code) == "DatabaseError"

\* The error the outer catch of an operation throws for a persistence error.
PersistenceError(op, code) ==
  IF code = "23505" /\ op \in {"createProduct", "updateProduct"}
  THEN "ConflictError" ELSE "DatabaseError"

CreateInputs == {[name |-> <<"a">>, price |-> 999, category |-> <<"c">>]}

UpdateInputs == {PlainNamePatch, PricePatch}

ServiceIds == {1, 2}

UseHashOnly == [NoOptions EXCEPT !.useHash = Some(TRUE)]

UseHashWithTTL == [NoOptions EXCEPT !.useHash = Some(TRUE), !.ttl = Some(PRODUCTS_TTL)]

WithTTL == [NoOptions EXCEPT !.ttl = Some(PRODUCTS_TTL)]

SvcEnter(op, id, data) ==
  [ServiceIdle EXCEPT !.op = op, !.id = id, !.data = data, !.outcome = "pending",
                      !.n = service.n + 1, !.returned = service.returned,
                      !.served = service.served]

SvcReturned(svc, value) ==
  [svc EXCEPT !.pc = "done", !.outcome = "returned", !.result = Some(value),
              !.returned = IF svc.op = "updateProduct"
                           THEN (IF value # Null THEN @ \cup {<<svc.op, svc.id>>} ELSE @)
                           ELSE IF svc.op = "deleteProduct"
                           THEN (IF value THEN @ \cup {<<svc.op, svc.id>>} ELSE @)
                           ELSE @]

SvcThrown(svc, error) == [svc EXCEPT !.pc = "done", !.outcome = "thrown", !.error = error]

\* The operation awaits the engine operation op.
SvcAwait(svc, pc, op) == [svc EXCEPT !.pc = pc, !.engine = Append(@, op)]

\* Operations begun in one run: MaxRequests where requests overtake one
\* another on a backend that executes every command, MaxServiceCalls
\* where they follow one another on a backend that may fail.
ServiceLimit == IF reliable THEN MaxRequests ELSE MaxServiceCalls

CanEnter ==
  /\ service.pc \in {"idle", "done"}
  /\ service.n < ServiceLimit
  /\ call.pc # "run"

createProduct ==
  \E data \in CreateInputs, reply \in {"ok", "23505", "other"} :
    LET svc == [SvcEnter("createProduct", 0, data) EXCEPT !.dbCalls = 1]
        savedProduct == [id |-> db.seq + 1, name |-> data.name, price |-> data.price,
                         category |-> data.category]
    IN /\ CanEnter
       /\ IF reply = "ok"
          THEN /\ db' = DbSave([db EXCEPT !.seq = @ + 1], savedProduct)
               /\ service' = SvcAwait([svc EXCEPT !.fromDb = Some(savedProduct)],
                                      "cache1", "cacheProduct")
               /\ call' = Invoked([Idle EXCEPT !.op = "cacheProduct",
                                               !.id = savedProduct.id,
                                               !.product = savedProduct,
                                               !.options = UseHashOnly])
          ELSE /\ db' = db
               /\ service' = SvcThrown([svc EXCEPT !.dbError = reply], PersistenceError("createProduct", reply))
               /\ call' = call
       /\ UNCHANGED <<store, connected, stats, prev, nCalls, obs, reliable,
                      productConfig, facade, parked, conn, http>>

updateProduct ==
  \E id \in ServiceIds, data \in UpdateInputs, reply \in {"ok", "23505", "other"} :
    LET svc == [SvcEnter("updateProduct", id, data) EXCEPT !.dbCalls = 1]
        product == DbFindOne(db, id)
    IN /\ CanEnter
       /\ IF reply # "ok"
          THEN /\ db' = db
               /\ service' = SvcThrown([svc EXCEPT !.dbError = reply], PersistenceError("updateProduct", reply))
               /\ call' = call
          ELSE IF product = Null
          THEN /\ db' = db
               /\ service' = SvcReturned([svc EXCEPT !.fromDb = Some(Null)], Null)
               /\ call' = call
          ELSE /\ db' = DbSave(db, Assigned(product[1], data))
               /\ service' = SvcAwait([svc EXCEPT !.dbCalls = 2,
                                                  !.fromDb = Some(Some(Assigned(product[1], data)))],
                                      "cache1", "updateProductHash")
               /\ call' = Invoked([Idle EXCEPT !.op = "updateProductHash", !.id = id,
                                               !.fields = Assigned(product[1], data)])
       /\ UNCHANGED <<store, connected, stats, prev, nCalls, obs, reliable,
                      productConfig, facade, parked, conn, http>>

\* Variant: the cache is invalidated whatever the number of affected rows.
RemovedAlways(d, id) == TRUE

\* result.affected && result.affected > 0
Removed(d, id) == id \in DOMAIN d.rows

deleteProduct ==
  \E id \in ServiceIds, reply \in {"ok", "23505", "other"} :
    LET svc == [SvcEnter("deleteProduct", id, NoFields) EXCEPT !.dbCalls = 1]
        affected == id \in DOMAIN db.rows
    IN /\ CanEnter
       /\ IF reply # "ok"
          THEN /\ db' = db
               /\ service' = SvcThrown([svc EXCEPT !.dbError = reply], PersistenceError("deleteProduct", reply))
               /\ call' = call
          ELSE IF ~Removed(db, id)
          THEN /\ db' = db
               /\ service' = SvcReturned([svc EXCEPT !.fromDb = Some(affected)], FALSE)
               /\ call' = call
          ELSE /\ db' = DbDelete(db, id)
               /\ service' = SvcAwait([svc EXCEPT !.fromDb = Some(affected)],
                                      "cache1", "invalidateProduct")
               /\ call' = Invoked([Idle EXCEPT !.op = "invalidateProduct", !.id = id])
       /\ UNCHANGED <<store, connected, stats, prev, nCalls, obs, reliable,
                      productConfig, facade, parked, conn, http>>

\* What a write returns when persistence has succeeded.
NormalResult(svc) == svc.fromDb[1]

\* Variant: a cache error caught in a write is thrown to the caller.
CacheFailureSurfaced(svc) == SvcThrown(svc, "DatabaseError")

\* catch (cacheError) { console.warn(...) } of a write, then its return.
CacheFailure(svc) == SvcReturned([svc EXCEPT !.warnings = @ + 1], NormalResult(svc))

\* The engine operation a write awaits has settled.
WriteResumed(op) ==
  /\ service.op = op
  /\ service.pc \in {"cache1", "cache2"}
  /\ call.pc = "done"
  /\ IF ~call.ok
     THEN /\ service' = CacheFailure(service)
          /\ call' = Idle
     ELSE IF service.pc = "cache1"
     THEN /\ service' = SvcAwait(service, "cache2", "invalidateProductLists")
          /\ call' = Invoked([Idle EXCEPT !.op = "invalidateProductLists"])
     ELSE /\ service' = SvcReturned(service, NormalResult(service))
          /\ call' = Idle
  /\ UNCHANGED <<store, connected, stats, prev, nCalls, obs, reliable,
                 productConfig, facade, db, parked, conn, http>>

createProductResumed == WriteResumed("createProduct")

updateProductResumed == WriteResumed("updateProduct")

deleteProductResumed == WriteResumed("deleteProduct")

getProductById ==
  \E id \in ServiceIds :
    /\ CanEnter
    /\ service' = SvcAwait(SvcEnter("getProductById", id, NoFields), "read",
                           "getCachedProduct")
    /\ call' = Invoked([Idle EXCEPT !.op = "getCachedProduct", !.id = id,
                                    !.options = UseHashOnly])
    /\ UNCHANGED <<store, connected, stats, prev, nCalls, obs, reliable,
                   productConfig, facade, db, parked, conn, http>>

\* ILIKE '%term%': the name holds the term, letter case set aside.  The
\* terms drawn hold neither of the wildcards % and _.
UpperChars ==
  <<"A", "B", "C", "D", "E", "F", "G", "H", "I", "J", "K", "L", "M",
    "N", "O", "P", "Q", "R", "S", "T", "U", "V", "W", "X", "Y", "Z">>

LowerChars ==
  <<"a", "b", "c", "d", "e", "f", "g", "h", "i", "j", "k", "l", "m",
    "n", "o", "p", "q", "r", "s", "t", "u", "v", "w", "x", "y", "z">>

Lower(text) ==
  [i \in 1..Len(text) |->
     IF \E k \in 1..26 : UpperChars[k] = text[i]
     THEN LowerChars[CHOOSE k \in 1..26 : UpperChars[k] = text[i]]
     ELSE text[i]]

ILike(text, term) ==
  \E i \in 0..(Len(text) - Len(term)) :
    SubSeq(Lower(text), i + 1, i + Len(term)) = Lower(term)

\* Truthiness of an optional text: present and not empty.
Truthy(text) == text # Undef /\ text[1] # <<>>

\* buildProductQuery(category, name): the ids of the rows selected.
buildProductQuery(d, category, name) ==
  {i \in DOMAIN d.rows :
     /\ Truthy(category) => d.rows[i].category = category[1]
     /\ Truthy(name) => ILike(d.rows[i].name, name[1])}

\* queryBuilder.skip(skip).take(actualLimit).getManyAndCount(): the page of
\* the rows selected, by descending id, and the count of the rows selected.
getManyAndCount(d, options) ==
  LET ids == buildProductQuery(d, options.category, options.name)
      sorted == ByIdDesc([i \in ids |-> d.rows[i]])
      skip == (PageOf(options) - 1) * ActualLimit(options)
  IN [products |-> SubSeq(sorted, skip + 1, Min(skip + ActualLimit(options), Len(sorted))),
      total |-> Cardinality(ids)]

\* The list queries drawn: the defaults alone on a backend that may fail;
\* otherwise a page of one row, a limit at and above MAX_LIMIT, and two
\* queries whose filters hold the separator of the key.
LimitOne == [NoQuery EXCEPT !.limit = Some(1)]

ListQueries ==
  IF reliable
  THEN {LimitOne,
        [NoQuery EXCEPT !.limit = Some(MAX_LIMIT)],
        [NoQuery EXCEPT !.limit = Some(MAX_LIMIT + 1)],
        [NoQuery EXCEPT !.category = Some(<<"c", ":", "a">>)],
        [NoQuery EXCEPT !.category = Some(<<"c">>), !.name = Some(<<"a", ":">>)]}
  ELSE {NoQuery}

getProducts ==
  \E options \in ListQueries :
    LET cacheKey == CacheKeyOf(options)
        svc == [SvcEnter("getProducts", 0, NoFields)
                  EXCEPT !.query = options,
                         !.served = @ \cup {[query |-> options, cacheKey |-> cacheKey]}]
    IN /\ CanEnter
       /\ service' = SvcAwait(svc, "read", "getCachedProducts")
       /\ call' = Invoked([Idle EXCEPT !.op = "getCachedProducts", !.cacheKey = cacheKey])
  /\ UNCHANGED <<store, connected, stats, prev, nCalls, obs, reliable,
                 productConfig, facade, db, parked, conn, http>>

\* Variant: the value read from the cache is not used.
CacheReadIgnored(c) == "miss"

\* Variant: an error of the cache read is not caught.
CacheReadUncaught(c) ==
  IF ~c.ok THEN "throw" ELSE IF c.result # Null THEN "hit" ELSE "miss"

\* How a read continues when its cache read has settled: a value is a hit,
\* null and an error (caught and logged) are a miss.
CacheRead(c) == IF c.ok /\ c.result # Null THEN "hit" ELSE "miss"

\* What a read returns for a value read from the cache.
HitValue(op, cached) ==
  IF op = "getProductById" THEN cached
  ELSE ListResponse(cached[1], Len(cached[1]), PageOf(service.query),
                    ActualLimit(service.query))

\* The persistence query of a read.
Query(op, d, id) ==
  IF op = "getProductById" THEN DbFindOne(d, id)
  ELSE ListResponse(getManyAndCount(d, service.query).products,
                    getManyAndCount(d, service.query).total,
                    PageOf(service.query), ActualLimit(service.query))

\* Variant: the entity found by getProductById is written as a JSON string.
WriteBackStringMode(op, value) ==
  IF op = "getProductById"
  THEN [Idle EXCEPT !.op = "cacheProduct", !.id = value[1].id, !.product = value[1],
                    !.options = [NoOptions EXCEPT !.useHash = Some(FALSE),
                                                  !.ttl = Some(PRODUCTS_TTL)]]
  ELSE [Idle EXCEPT !.op = "cacheProducts", !.products = value.products,
                    !.cacheKey = CacheKeyOf(service.query), !.options = WithTTL]

\* The engine write that follows the persistence query of a read.
WriteBack(op, value) ==
  IF op = "getProductById"
  THEN [Idle EXCEPT !.op = "cacheProduct", !.id = value[1].id, !.product = value[1],
                    !.options = UseHashWithTTL]
  ELSE [Idle EXCEPT !.op = "cacheProducts", !.products = value.products,
                    !.cacheKey = CacheKeyOf(service.query), !.options = WithTTL]

\* The engine operation a read awaits has settled.
ReadResumed(op) ==
  /\ service.op = op
  /\ call.pc = "done"
  /\ IF service.pc = "read"
     THEN LET svc == [service EXCEPT !.readOk = call.ok, !.cached = call.result,
                                     !.warnings = IF call.ok THEN @ ELSE @ + 1]
          IN IF CacheRead(call) = "hit"
             THEN /\ service' = SvcReturned(svc, HitValue(op, call.result))
                  /\ call' = Idle
             ELSE IF CacheRead(call) = "throw"
             THEN /\ service' = SvcThrown(svc, "DatabaseError")
                  /\ call' = Idle
             ELSE \E reply \in {"ok", "23505", "other"} :
                    LET value == Query(op, db, service.id)
                        asked == [svc EXCEPT !.dbCalls = @ + 1]
                    IN IF reply # "ok"
                       THEN /\ service' = SvcThrown([asked EXCEPT !.dbError = reply],
                                                    PersistenceError(op, reply))
                            /\ call' = Idle
                       ELSE IF op = "getProductById" /\ value = Null
                       THEN /\ service' = SvcReturned([asked EXCEPT !.fromDb = Some(value)],
                                                      value)
                            /\ call' = Idle
                       ELSE /\ service' = SvcAwait([asked EXCEPT !.fromDb = Some(value)],
                                                   "write", WriteBack(op, value).op)
                            /\ call' = Invoked(WriteBack(op, value))
     ELSE /\ service.pc = "write"
          /\ service' = SvcReturned([service EXCEPT !.warnings = IF call.ok THEN @ ELSE @ + 1],
                                    service.fromDb[1])
          /\ call' = Idle
  /\ UNCHANGED <<store, connected, stats, prev, nCalls, obs, reliable,
                 productConfig, facade, db, parked, conn, http>>

getProductByIdResumed == ReadResumed("getProductById")

getProductsResumed == ReadResumed("getProducts")

\* The rows of a query without ORDER BY, in any order the database picks.
Orderings(rows) ==
  {o \in [1..Cardinality(DOMAIN rows) -> {rows[i] : i \in DOMAIN rows}] :
     \A i, j \in DOMAIN o : i # j => o[i] # o[j]}

SearchTerms == {<<"A">>, <<"z">>}

\* searchProducts(searchTerm) with the default options: one query, no cache.
searchProducts ==
  \E searchTerm \in SearchTerms, reply \in {"ok", "23505", "other"} :
    LET svc == [SvcEnter("searchProducts", 0, [searchTerm |-> searchTerm])
                  EXCEPT !.dbCalls = 1]
        ids == {i \in DOMAIN db.rows : ILike(db.rows[i].name, searchTerm)}
        found == [i \in ids |-> db.rows[i]]
    IN /\ CanEnter
       /\ IF reply # "ok"
          THEN service' = SvcThrown([svc EXCEPT !.dbError = reply],
                                    PersistenceError("searchProducts", reply))
          ELSE \E products \in Orderings(found) :
                 LET result == ListResponse(products, Cardinality(ids), DEFAULT_PAGE,
                                            Min(DEFAULT_LIMIT, MAX_LIMIT))
                 IN service' = SvcReturned([svc EXCEPT !.fromDb = Some(result)], result)
       /\ UNCHANGED <<store, connected, stats, call, prev, nCalls, obs, reliable,
                      productConfig, facade, db, parked, conn, http>>

InitCatalog ==
  /\ Start
  /\ reliable = FALSE
  /\ productConfig = DefaultConfig
  /\ db \in {EmptyDb, OneRowDb}

NextCatalog ==
  \/ createProduct
  \/ updateProduct
  \/ deleteProduct
  \/ getProductById
  \/ getProducts
  \/ searchProducts
  \/ createProductResumed
  \/ updateProductResumed
  \/ deleteProductResumed
  \/ getProductByIdResumed
  \/ getProductsResumed
  \/ AttemptCacheProduct
  \/ AttemptGetCachedProduct
  \/ AttemptCacheProducts
  \/ AttemptGetCachedProducts
  \/ AttemptInvalidateProduct
  \/ AttemptInvalidateProductLists
  \/ AttemptUpdateProductHash
  \/ OnReady
  \/ OnError
  \/ OnEnd

SpecCatalog == InitCatalog /\ [][NextCatalog]_vars

IsCatalogWrite(op) == op \in {"createProduct", "updateProduct", "deleteProduct"}

IsCatalogRead(op) == op \in {"getProductById", "getProducts"}

\* C17: when the persistence step of createProduct, updateProduct or
\* deleteProduct has succeeded, the operation returns what persistence gave
\* (the saved entity, the updated entity or null, whether a row was
\* removed), whatever the engine raised; it throws only when persistence
\* failed.
C17_CacheFailuresNeverFailWrites ==
  IsCatalogWrite(service.op) =>
    /\ (service.pc = "done" /\ service.fromDb # Null) =>
         /\ service.outcome = "returned"
         /\ service.error = ""
         /\ service.result = service.fromDb
    /\ service.outcome = "thrown" => (service.fromDb = Null /\ service.engine = <<>>)

\* createProduct saved the entity, the engine failed, the entity is returned.
C17_Witness ==
  /\ service.op = "createProduct"
  /\ service.pc = "done"
  /\ service.warnings = 1
  /\ service.outcome = "returned"
  /\ service.result = Some(db.rows[db.seq])

\* C18: a catalog write whose persistence step has succeeded has returned:
\* it is never found waiting for an engine operation that is still running.
C18_WritesDoNotWait ==
  ~(/\ IsCatalogWrite(service.op)
    /\ service.fromDb # Null
    /\ service.outcome = "pending"
    /\ call.pc = "run")

\* C19: when the cache read of getProductById or getProducts returns a
\* value, that value is returned, persistence is not queried and no cache
\* write is issued.
C19_ReadThroughShortCircuit ==
  (/\ IsCatalogRead(service.op)
   /\ service.pc # "read"
   /\ service.readOk
   /\ service.cached # Null) =>
    /\ service.pc = "done"
    /\ service.outcome = "returned"
    /\ service.dbCalls = 0
    /\ Len(service.engine) = 1
    /\ IF service.op = "getProductById"
       THEN service.result[1] = service.cached
       ELSE service.result[1].products = service.cached[1]

\* getProducts returned the cached list without a persistence query.
C19_Witness ==
  /\ service.op = "getProducts"
  /\ service.pc = "done"
  /\ service.cached = Some(<<Widget>>)
  /\ service.dbCalls = 0
  /\ service.result[1].products = <<Widget>>

\* C20: when the cache read of getProductById or getProducts throws, the
\* call queries persistence and returns exactly what persistence returns
\* (it throws only if persistence does); an error of the cache write that
\* follows the persistence query does not change the result.
C20_FailedReadIsMiss ==
  (IsCatalogRead(service.op) /\ service.pc = "done") =>
    /\ ~service.readOk =>
         /\ service.dbCalls = 1
         /\ service.fromDb = Null => service.outcome = "thrown"
    /\ service.fromDb # Null =>
         /\ service.outcome = "returned"
         /\ service.result = service.fromDb

\* The read of a hash without id failed, the write that followed failed as
\* well, and getProductById returned the row of persistence.
C20_Witness ==
  /\ service.op = "getProductById"
  /\ service.pc = "done"
  /\ ~service.readOk
  /\ service.warnings = 2
  /\ Malformed(HGetAll(store, generateHashKey(service.id, Undef)))
  /\ service.outcome = "returned"
  /\ service.result = Some(Some(db.rows[service.id]))

\* The cache write of a read succeeded: every warning of the read, if any,
\* is the one of its cache read.
WriteBackSucceeded(svc) == svc.warnings = (IF svc.readOk THEN 0 ELSE 1)

\* C21: on a cache miss of getProductById, a cache write is invoked if and
\* only if persistence found the entity.  A found entity is written with
\* cacheProduct in hash mode with ttl PRODUCTS_TTL while the caller still
\* waits, and when that write succeeded the hash of the id holds the
\* entity's fields with that expiry when the call returns; an id that was
\* not found returns null and invokes no engine operation after the read.
C21_MissWritesIffFound ==
  (/\ service.op = "getProductById"
   /\ service.pc \in {"write", "done"}
   /\ service.fromDb # Null) =>
    LET found == service.fromDb[1]
    IN IF found = Null
       THEN /\ service.pc = "done"
            /\ service.outcome = "returned"
            /\ service.result = Some(Null)
            /\ service.engine = <<"getCachedProduct">>
       ELSE /\ service.engine = <<"getCachedProduct", "cacheProduct">>
            /\ service.pc = "write" =>
                 /\ service.outcome = "pending"
                 /\ call.op = "cacheProduct"
                 /\ call.product = found[1]
                 /\ UseHash(call.options)
                 /\ call.options.ttl = Some(PRODUCTS_TTL)
            /\ service.pc = "done" =>
                 /\ service.result = Some(found)
                 /\ WriteBackSucceeded(service) =>
                      LET hashKey == generateHashKey(found[1].id, Undef)
                      IN /\ hashKey \in DOMAIN store
                         /\ store[hashKey].type = "hash"
                         /\ store[hashKey].ttl = PRODUCTS_TTL
                         /\ \A f \in DOMAIN ProductHash(found[1]) :
                              store[hashKey].fields[f] = ProductHash(found[1])[f]

\* A miss of getProductById found the row, cached it and returned it.
C21_Witness ==
  /\ service.op = "getProductById"
  /\ service.pc = "done"
  /\ service.readOk
  /\ service.cached = Null
  /\ service.fromDb = Some(Some(Widget))
  /\ WriteBackSucceeded(service)
  /\ service.result = Some(Some(Widget))
  /\ store[generateHashKey(1, Undef)].ttl = PRODUCTS_TTL

\* A miss of getProductById for an id persistence does not hold: null is
\* returned and the cache holds no entry for the id.
C21_WitnessNotFound ==
  /\ service.op = "getProductById"
  /\ service.pc = "done"
  /\ service.fromDb = Some(Null)
  /\ service.result = Some(Null)
  /\ generateHashKey(service.id, Undef) \notin DOMAIN store

\* A step of deleteProduct: its entry, or its resumption after an engine
\* operation it awaited.
DeleteStep == service' # service /\ service'.op = "deleteProduct"

\* C22: deleteProduct uses the cache only after persistence reported a
\* removed row.  When no row was affected (or persistence failed) the
\* call ends in the step that asked persistence: no engine operation is
\* invoked, the cache and the statistics are unchanged, and false is
\* returned for zero affected rows.  When a row was affected the call
\* invokes invalidateProduct(id) first, returns true, and once that
\* invalidation has succeeded neither single-entity key of the id is cached.
C22_DeleteTouchesCacheAfterRemoval ==
  [][DeleteStep =>
       IF service'.fromDb = Some(TRUE)
       THEN /\ service'.engine # <<>>
            /\ service'.engine[1] = "invalidateProduct"
            /\ service'.id \notin DOMAIN db'.rows
            /\ service.pc \in {"idle", "done"} =>
                 /\ service'.id \in DOMAIN db.rows
                 /\ call'.pc = "run"
                 /\ call'.op = "invalidateProduct"
                 /\ call'.id = service'.id
            /\ service'.pc = "done" =>
                 /\ service'.outcome = "returned"
                 /\ service'.result = Some(TRUE)
            /\ (service'.pc = "cache2" \/ (service'.pc = "done" /\ service'.warnings = 0)) =>
                 InvalidateKeys(service'.id, NoOptions) \cap DOMAIN store' = {}
       ELSE /\ service'.engine = <<>>
            /\ service'.pc = "done"
            /\ store' = store
            /\ stats' = stats
            /\ call' = call
            /\ db' = db
            /\ service'.fromDb = Some(FALSE) =>
                 (service'.outcome = "returned" /\ service'.result = Some(FALSE))
            /\ service'.fromDb = Null => service'.outcome = "thrown"]_vars

\* deleteProduct of an id persistence does not hold returned false while
\* the cache holds an entry and the statistics are not zero.
C22_Witness ==
  /\ service.op = "deleteProduct"
  /\ service.pc = "done"
  /\ service.fromDb = Some(FALSE)
  /\ service.result = Some(FALSE)
  /\ service.engine = <<>>
  /\ DOMAIN store # {}
  /\ stats.operations > 0

\* deleteProduct removed the row, invalidated a cached entity and
\* returned true.
C22_WitnessRemoved ==
  /\ service.op = "deleteProduct"
  /\ service.pc = "done"
  /\ service.result = Some(TRUE)
  /\ service.engine = <<"invalidateProduct", "invalidateProductLists">>
  /\ service.warnings = 0
  /\ stats.operations > 0
  /\ DOMAIN store = {}

(***************************************************************************)
(* Requests that overtake one another.  Each `await` of a catalog          *)
(* operation gives the event loop to the other requests: a read whose      *)
(* persistence query has been answered and whose cache write has not been  *)
(* executed yet (the reply of persistence on its way, or a retry asleep)   *)
(* is set aside while another request runs, and goes on when that request  *)
(* has returned.  The other interleavings (a write overtaken, a read       *)
(* overtaken before its persistence query) are not explored.               *)
(***************************************************************************)
Yield ==
  /\ IsCatalogRead(service.op)
  /\ service.pc = "write"
  /\ call.pc = "run"
  /\ Len(parked) < MaxParked
  /\ service.n < ServiceLimit
  /\ parked' = Append(parked, [service |-> service, call |-> call])
  /\ service' = [ServiceIdle EXCEPT !.n = service.n, !.returned = service.returned,
                                    !.served = service.served]
  /\ call' = Idle
  /\ UNCHANGED <<store, connected, stats, prev, nCalls, obs, reliable,
                 productConfig, facade, db, conn, http>>

Continue ==
  /\ parked # <<>>
  /\ service.pc = "done"
  /\ call.pc # "run"
  /\ service' = [Head(parked).service EXCEPT !.overtaken = TRUE, !.n = service.n,
                                             !.returned = service.returned,
                                             !.served = service.served]
  /\ call' = Head(parked).call
  /\ parked' = Tail(parked)
  /\ UNCHANGED <<store, connected, stats, prev, nCalls, obs, reliable,
                 productConfig, facade, db, conn, http>>

\* Requests for the rows persistence holds: reads by id, updates and
\* deletions.  The backend executes every command and keeps the connection
\* while a call runs.
InitRequests ==
  /\ Start
  /\ reliable = TRUE
  /\ productConfig = DefaultConfig
  /\ db = OneRowDb

NextRequests ==
  \/ updateProduct
  \/ deleteProduct
  \/ getProductById
  \/ updateProductResumed
  \/ deleteProductResumed
  \/ getProductByIdResumed
  \/ Yield
  \/ Continue
  \/ AttemptCacheProduct
  \/ AttemptGetCachedProduct
  \/ AttemptInvalidateProduct
  \/ AttemptInvalidateProductLists
  \/ AttemptUpdateProductHash
  \/ OnReady
  \/ OnError
  \/ OnEnd

SpecRequests == InitRequests /\ [][NextRequests]_vars

\* A read by id that began after the write (op, id) had returned and that
\* no request overtook has returned or thrown.
LaterRead(op) ==
  /\ service.op = "getProductById"
  /\ service.pc = "done"
  /\ ~service.overtaken
  /\ <<op, service.id>> \in service.returned

\* C23: a read by id that begins after deleteProduct(id) has returned true
\* finds nothing in the cache and returns null, whatever cache work for
\* the id was under way when the deletion returned.
C23_DeletedNeverReadBack ==
  LaterRead("deleteProduct") =>
    /\ service.cached = Null
    /\ service.outcome = "returned" => service.result = Some(Null)

\* C24: a read by id that begins after updateProduct(id, patch) has
\* returned the updated entity, the row still being held by persistence,
\* returns the name, price and category persistence holds, whatever cache
\* work for the id was under way when the update returned.
C24_UpdatedValuesRead ==
  (/\ LaterRead("updateProduct")
   /\ service.id \in DOMAIN db.rows
   /\ service.outcome = "returned") =>
    /\ service.result[1] # Null
    /\ service.result[1][1].name = db.rows[service.id].name
    /\ service.result[1][1].price = db.rows[service.id].price
    /\ service.result[1][1].category = db.rows[service.id].category

\* C25: a catalog operation throws exactly when persistence raised an
\* error, and then throws ConflictError when the error carries code 23505
\* in createProduct or updateProduct, and DatabaseError in every other case
\* (any other code, and any code in deleteProduct, getProductById,
\* getProducts and searchProducts).
C25_ErrorTaxonomy ==
  /\ (service.outcome = "thrown") = (service.dbError # "")
  /\ service.outcome = "thrown" =>
       /\ service.pc = "done"
       /\ service.result = Null
       /\ service.error \in {"ConflictError", "DatabaseError"}
       /\ (service.error = "ConflictError") =
            (/\ service.dbError = "23505"
             /\ service.op \in {"createProduct", "updateProduct"})

\* updateProduct threw ConflictError for a uniqueness violation.
C25_Witness ==
  /\ service.op = "updateProduct"
  /\ service.outcome = "thrown"
  /\ service.dbError = "23505"
  /\ service.error = "ConflictError"

\* searchProducts threw DatabaseError for an error that carries code 23505.
C25_WitnessOther ==
  /\ service.op = "searchProducts"
  /\ service.outcome = "thrown"
  /\ service.dbError = "23505"
  /\ service.error = "DatabaseError"

(***************************************************************************)
(* Health probes: RedisCacheService.healthCheck, which writes, reads back  *)
(* and deletes a disposable key without the retry loop, and                *)
(* ProductService.healthCheck, which counts the rows and asks the engine.  *)
(***************************************************************************)
\* `health_check_${Date.now()}`, the value written and its expiry.
TestKey == <<"health_check_", "t">>

TestValue == <<"t", "e", "s", "t">>

TestExpiry == 5

\* Elapsed milliseconds a probe may measure.
Latencies == {0, 3}

CacheHealth(status, latency, st, errors) ==
  [status |-> status, latency |-> latency, stats |-> st, errors |-> errors]

\* `Health check failed: ${error.message}`
HealthCheckFailed(message) == <<"Health check failed: ", message>>

\* Variant: the value read back is not compared with the value written.
ReadBackUnchecked(result) == TRUE

\* result === 'test'
ReadBackMatches(result) == result = Some(TestValue)

\* RedisCacheService.healthCheck.  Commands: 1 SET, 2 GET, 3 DEL; seen is
\* false when the key is gone before GET reads it (expired, evicted, or
\* deleted by a probe that began in the same millisecond).
healthCheck(s, st, isConnected, failAt, seen, latency) ==
  LET s1 == SetEx(s, TestKey, TestExpiry, TestValue)
      s2 == IF seen THEN s1 ELSE Del(s1, {TestKey})
      result == Get(s2, TestKey)
      s3 == Del(s2, {TestKey})
      failed(s0, message, read) ==
        [store |-> s0, err |-> message, readBack |-> read,
         health |-> CacheHealth("unhealthy", latency, st, <<HealthCheckFailed(message)>>)]
  IN IF ~isConnected THEN failed(s, NotConnected, Null)
     ELSE IF failAt = 1 THEN failed(s, RedisError, Null)
     ELSE IF failAt = 2 THEN failed(s1, RedisError, Null)
     ELSE IF failAt = 3 THEN failed(s2, RedisError, result)
     ELSE LET errors == IF ReadBackMatches(result) THEN <<>>
                        ELSE <<"Basic cache operations failed">>
          IN [store |-> s3, err |-> "", readBack |-> result,
              health |-> CacheHealth(IF errors = <<>> THEN "healthy" ELSE "unhealthy",
                                     latency, st, errors)]

\* A caller invokes the probe of the engine.
CallHealthCheck ==
  /\ call.pc # "run"
  /\ service.pc \in {"idle", "done"}
  /\ call' = Invoked([Idle EXCEPT !.op = "healthCheck"])
  /\ UNCHANGED <<store, connected, stats, prev, nCalls, obs, reliable, upper>>

\* The probe runs to its return.
RunHealthCheck ==
  /\ call.pc = "run"
  /\ call.op = "healthCheck"
  /\ \E failAt \in (IF reliable THEN {0} ELSE 0..3),
        seen \in (IF reliable THEN {TRUE} ELSE BOOLEAN),
        latency \in Latencies :
       LET r == healthCheck(store, stats, connected, failAt, seen, latency)
       IN /\ store' = r.store
          /\ call' = [call EXCEPT !.pc = "done", !.ok = TRUE, !.tries = 1,
                                  !.result = Some(r.health), !.raised = r.err,
                                  !.readBack = r.readBack]
  /\ UNCHANGED <<connected, stats, prev, nCalls, obs, reliable, upper>>

\* The fallbacks of ProductService.healthCheck when the cache probe throws.
CacheUnavailable ==
  [status |-> "unhealthy", latency |-> Undef, errors |-> <<"Cache service unavailable">>]

CacheStatsUnavailable ==
  [hits |-> 0, misses |-> 0, operations |-> 0, errors |-> 1, retries |-> 0,
   hitRate |-> [num |-> 0, den |-> 1]]

\* Variant: the report is healthy whatever the cache probe answered.
HealthReportAlwaysHealthy(totalProducts, cacheHealth, cacheStats) ==
  [status |-> "healthy",
   stats |-> [totalProducts |-> totalProducts,
              cache |-> [status |-> cacheHealth.status, latency |-> cacheHealth.latency,
                         hitRate |-> cacheStats.hitRate,
                         operations |-> cacheStats.operations,
                         errors |-> cacheStats.errors, retries |-> cacheStats.retries]]]

\* The report of ProductService.healthCheck when the count succeeded.
HealthReport(totalProducts, cacheHealth, cacheStats) ==
  [status |-> IF cacheHealth.status = "healthy" THEN "healthy" ELSE "degraded",
   stats |-> [totalProducts |-> totalProducts,
              cache |-> [status |-> cacheHealth.status, latency |-> cacheHealth.latency,
                         hitRate |-> cacheStats.hitRate,
                         operations |-> cacheStats.operations,
                         errors |-> cacheStats.errors, retries |-> cacheStats.retries]]]

\* The report when the count failed.
HealthReportUnhealthy(message) ==
  [status |-> "unhealthy", stats |-> [error |-> message, cache |-> [status |-> "unknown"]]]

\* ProductService.healthCheck: repository.count(), then the probe of the
\* cache service.  The engine's own probe never throws; probeThrows stands
\* for a cache service that does (the inner catch).
ProductServiceHealthCheck ==
  \E reply \in {"ok", "other"}, probeThrows \in BOOLEAN :
    LET svc == [SvcEnter("healthCheck", 0, NoFields) EXCEPT !.dbCalls = 1]
        totalProducts == Cardinality(DOMAIN db.rows)
    IN /\ CanEnter
       /\ IF reply # "ok"
          THEN /\ service' = SvcReturned([svc EXCEPT !.dbError = reply],
                                         HealthReportUnhealthy(reply))
               /\ call' = call
          ELSE IF probeThrows
          THEN /\ service' = SvcReturned([svc EXCEPT !.fromDb = Some(totalProducts),
                                                     !.readOk = FALSE],
                                         HealthReport(totalProducts, CacheUnavailable,
                                                      CacheStatsUnavailable))
               /\ call' = call
          ELSE /\ service' = SvcAwait([svc EXCEPT !.fromDb = Some(totalProducts)],
                                      "probe", "healthCheck")
               /\ call' = Invoked([Idle EXCEPT !.op = "healthCheck"])
       /\ UNCHANGED <<store, connected, stats, prev, nCalls, obs, reliable,
                      productConfig, facade, db, parked, conn, http>>

\* The probe of the engine has returned: getCacheStats(), then the report.
ProductServiceHealthCheckResumed ==
  /\ service.op = "healthCheck"
  /\ service.pc = "probe"
  /\ call.pc = "done"
  /\ service' = SvcReturned([service EXCEPT !.cached = call.result],
                            HealthReport(service.fromDb[1], call.result[1], stats))
  /\ call' = Idle
  /\ UNCHANGED <<store, connected, stats, prev, nCalls, obs, reliable,
                 productConfig, facade, db, parked, conn, http>>

InitHealth ==
  /\ Start
  /\ reliable = FALSE
  /\ productConfig = DefaultConfig
  /\ db \in {EmptyDb, OneRowDb}

NextHealth ==
  \/ CallHealthCheck
  \/ RunHealthCheck
  \/ ProductServiceHealthCheck
  \/ ProductServiceHealthCheckResumed
  \/ getProductById
  \/ getProductByIdResumed
  \/ AttemptGetCachedProduct
  \/ AttemptCacheProduct
  \/ OnReady
  \/ OnError
  \/ OnEnd

SpecHealth == InitHealth /\ [][NextHealth]_vars

\* C26: ProductService.healthCheck always returns.  Its status is
\* 'unhealthy', with cache sub-status 'unknown', when the count of
\* persistence failed; otherwise it is 'healthy' exactly when the cache
\* probe returned 'healthy', and 'degraded' with cache sub-status
\* 'unhealthy' when the probe returned 'unhealthy' or threw.
C26_ServiceHealth ==
  (service.op = "healthCheck" /\ service.pc = "done") =>
    /\ service.outcome = "returned"
    /\ LET report == service.result[1]
       IN IF service.dbError # ""
          THEN /\ report.status = "unhealthy"
               /\ report.stats.cache.status = "unknown"
          ELSE /\ report.stats.totalProducts = Cardinality(DOMAIN db.rows)
               /\ IF service.readOk /\ service.cached[1].status = "healthy"
                  THEN /\ report.status = "healthy"
                       /\ report.stats.cache.status = "healthy"
                  ELSE /\ report.status = "degraded"
                       /\ report.stats.cache.status = "unhealthy"

\* The count succeeded, the connection was down: the report is degraded.
C26_Witness ==
  /\ service.op = "healthCheck"
  /\ service.pc = "done"
  /\ service.dbError = ""
  /\ service.readOk
  /\ service.cached[1].errors = <<HealthCheckFailed(NotConnected)>>
  /\ service.result[1].status = "degraded"
  /\ service.result[1].stats.totalProducts = 1

\* The probe of the engine takes its step.
ProbeStep == call.pc = "run" /\ call.op = "healthCheck" /\ call' # call

\* C27: RedisCacheService.healthCheck always returns.  It returns 'healthy'
\* with no error message exactly when the connection is up, no command
\* failed and the value read back is the value written; in every other
\* case it returns 'unhealthy' with at least one error message.  The
\* result carries the statistics as they are, and the probe does not
\* change them.
C27_EngineHealth ==
  [][ProbeStep =>
       /\ call'.pc = "done"
       /\ call'.ok
       /\ stats' = stats
       /\ LET health == call'.result[1]
          IN /\ health.stats = stats
             /\ (health.status = "healthy") =
                  (connected /\ call'.raised = "" /\ call'.readBack = Some(TestValue))
             /\ health.status = "healthy" => health.errors = <<>>
             /\ health.status # "healthy" =>
                  (health.status = "unhealthy" /\ Len(health.errors) >= 1)]_vars

\* The connection was up, every command was executed, the key was gone
\* when it was read back: the probe returned unhealthy with one message,
\* carrying statistics that are not zero.
C27_Witness ==
  /\ Done("healthCheck")
  /\ call.raised = ""
  /\ call.readBack = Null
  /\ call.result[1].status = "unhealthy"
  /\ call.result[1].errors = <<"Basic cache operations failed">>
  /\ call.result[1].stats.operations > 0

(***************************************************************************)
(* RedisConnection: connect and disconnect, and the handlers of the        *)
(* events the underlying client emits.  A call of connect or disconnect    *)
(* is one step: the underlying client settles its promise without the      *)
(* handlers being run by this call.                                        *)
(***************************************************************************)
MaxConnectionCalls == 3

Events == {"connect", "ready", "error", "end"}

\* Variant: the handler of 'connect' marks the connection as usable.
HandlerEager(event, isConnected) == event \in {"connect", "ready"}

\* setupEventHandlers: isConnected after the handler of the event has run.
Handler(event, isConnected) ==
  CASE event = "connect" -> isConnected
    [] event = "ready" -> TRUE
    [] event = "error" -> FALSE
    [] event = "end" -> FALSE

\* The underlying client emits an event.
Emit(event) ==
  /\ connected' = Handler(event, connected)
  /\ conn' = [conn EXCEPT !.lastEvent = event,
                          !.lastLifecycle = IF event = "connect" THEN @ ELSE event]
  /\ UNCHANGED <<store, stats, call, prev, nCalls, obs, reliable,
                 productConfig, facade, service, db, parked, http>>

EmitConnect == Emit("connect")

EmitReady == Emit("ready")

EmitError == Emit("error")

EmitEnd == Emit("end")

\* A call of connect or disconnect begins.
Entered(c, method) ==
  [c EXCEPT !.n = @ + 1, !.method = method, !.called = FALSE, !.failed = FALSE,
            !.outcome = "returned"]

\* Variant: connect logs the error of the underlying client and returns.
ConnectFailedSwallowed(c) == [c EXCEPT !.failed = TRUE, !.logged = @ + 1]

\* catch (error) { console.error(...); throw error; }
ConnectFailed(c) == [c EXCEPT !.failed = TRUE, !.logged = @ + 1, !.outcome = "thrown"]

\* Variant: disconnect rethrows the error of the underlying client.
DisconnectFailedRethrown(c) ==
  [c EXCEPT !.failed = TRUE, !.logged = @ + 1, !.outcome = "thrown"]

\* catch (error) { console.error(...); }
DisconnectFailed(c) == [c EXCEPT !.failed = TRUE, !.logged = @ + 1]

connect ==
  \E rejected \in BOOLEAN :
    LET c == Entered(conn, "connect")
        asked == [c EXCEPT !.called = TRUE, !.clientConnects = @ + 1]
    IN /\ conn.n < MaxConnectionCalls
       /\ conn' = IF ~connected
                  THEN (IF rejected THEN ConnectFailed(asked) ELSE asked)
                  ELSE c
       /\ UNCHANGED <<store, connected, stats, call, prev, nCalls, obs, reliable,
                      productConfig, facade, service, db, parked, http>>

disconnect ==
  \E rejected \in BOOLEAN :
    LET c == Entered(conn, "disconnect")
        asked == [c EXCEPT !.called = TRUE, !.clientDisconnects = @ + 1]
    IN /\ conn.n < MaxConnectionCalls
       /\ conn' = IF connected
                  THEN (IF rejected THEN DisconnectFailed(asked) ELSE asked)
                  ELSE c
       /\ UNCHANGED <<store, connected, stats, call, prev, nCalls, obs, reliable,
                      productConfig, facade, service, db, parked, http>>

InitConnection ==
  /\ Start
  /\ reliable = FALSE
  /\ productConfig = DefaultConfig
  /\ db = EmptyDb

NextConnection ==
  \/ connect
  \/ disconnect
  \/ EmitConnect
  \/ EmitReady
  \/ EmitError
  \/ EmitEnd

SpecConnection == InitConnection /\ [][NextConnection]_vars

\* A call of the method takes its step.
MethodStep(method) == conn'.n = conn.n + 1 /\ conn'.method = method

\* C28: connect called while isConnected is true does not call the
\* underlying client's connect and returns; called while it is false it
\* calls it once, and when that call fails the error is logged and thrown
\* to the caller, isConnected being false before and after the call.
C28_ConnectIdempotent ==
  [][MethodStep("connect") =>
       /\ connected' = connected
       /\ conn'.clientDisconnects = conn.clientDisconnects
       /\ IF connected
          THEN /\ ~conn'.called
               /\ conn'.clientConnects = conn.clientConnects
               /\ conn'.outcome = "returned"
          ELSE /\ conn'.called
               /\ conn'.clientConnects = conn.clientConnects + 1
               /\ conn'.failed =>
                    /\ conn'.outcome = "thrown"
                    /\ conn'.logged = conn.logged + 1
                    /\ ~connected'
               /\ ~conn'.failed => conn'.outcome = "returned"]_vars

\* connect was called while connected, after a call that had failed: the
\* underlying client was asked once in all.
C28_Witness ==
  /\ conn.method = "connect"
  /\ conn.n = 2
  /\ connected
  /\ ~conn.called
  /\ conn.clientConnects = 1
  /\ conn.logged = 1
  /\ conn.outcome = "returned"

\* C29: disconnect always returns.  Called while isConnected is false it
\* does not call the underlying client's disconnect; called while it is
\* true it calls it once, and an error of that call is logged and not
\* thrown.
C29_DisconnectNeverFails ==
  [][MethodStep("disconnect") =>
       /\ connected' = connected
       /\ conn'.clientConnects = conn.clientConnects
       /\ conn'.outcome = "returned"
       /\ IF connected
          THEN /\ conn'.called
               /\ conn'.clientDisconnects = conn.clientDisconnects + 1
               /\ conn'.logged = conn.logged + (IF conn'.failed THEN 1 ELSE 0)
          ELSE /\ ~conn'.called
               /\ conn'.clientDisconnects = conn.clientDisconnects
               /\ conn'.logged = conn.logged]_vars

\* The underlying disconnect failed: the error was logged and disconnect
\* returned.
C29_Witness ==
  /\ conn.method = "disconnect"
  /\ conn.called
  /\ conn.failed
  /\ conn.logged = 1
  /\ conn.clientDisconnects = 1
  /\ conn.outcome = "returned"

\* C30: isConnected is false at first and, after any sequence of events and
\* of calls of connect and disconnect, it is true exactly when the last of
\* the events ready, error and end was ready: the connect event and the
\* calls leave it as it is.
C30_ConnectionState ==
  connected = (conn.lastLifecycle = "ready")

\* After ready, disconnect was called and the client emitted connect: no
\* end has been emitted and isConnected is still true.
C30_Witness ==
  /\ connected
  /\ conn.lastLifecycle = "ready"
  /\ conn.lastEvent = "connect"
  /\ conn.method = "disconnect"
  /\ conn.clientDisconnects = 1

(***************************************************************************)
(* List invalidation.                                                      *)
(***************************************************************************)
\* The keys of s that match one of the two list patterns of the options.
ListKeys(s, options) ==
  {k \in DOMAIN s : \E i \in 1..2 : IsPrefixOf(ListPatterns(options)[i], k)}

\* The running invalidateProductLists completes successfully in this step.
ListsInvalidatedStep ==
  /\ AttemptStep
  /\ call.op = "invalidateProductLists"
  /\ call'.pc = "done"
  /\ call'.ok

\* C31: when invalidateProductLists completes successfully, no key matching
\* '<prefix or product>:list:*' and no key matching '<prefix or
\* products_list>:*' remains in the cache, however many scan rounds the
\* keyspace takes; when no key matches, no DEL command is issued.
C31_ListInvalidationComplete ==
  [][ListsInvalidatedStep =>
       /\ ListKeys(store', call.options) = {}
       /\ call'.deleted = Cardinality(ListKeys(store, call.options))
       /\ ListKeys(store, call.options) = {} => (call'.dels = 0 /\ store' = store)]_vars

\* More keys were removed than one scan round visits, by one DEL for each
\* pattern.
C31_Witness ==
  /\ Done("invalidateProductLists")
  /\ call.ok
  /\ call.deleted > ScanBatch
  /\ call.dels = 2
  /\ ListKeys(store, call.options) = {}

\* Nothing matched while other keys were cached: no DEL was issued.
C31_WitnessNoMatch ==
  /\ Done("invalidateProductLists")
  /\ call.ok
  /\ call.dels = 0
  /\ call.deleted = 0
  /\ DOMAIN store # {}

\* C36: once the cache operations called so far have returned successfully,
\* every hash entry in the cache has an expiry set.
C36_HashesExpire ==
  (call.pc # "run" /\ ~obs.failed) =>
    \A k \in DOMAIN store : store[k].type = "hash" => store[k].ttl # NoExpiry

\* C37: hits equals the number of getCachedProduct / getCachedProducts calls
\* that returned a value and misses the number of those that returned null;
\* failed reads and retried attempts add to neither.
C37_CountersMatchReads ==
  call.pc # "run" =>
    /\ stats.hits = obs.hitCalls
    /\ stats.misses = obs.missCalls

\* The single-entity keys (hash and string) of s under the prefix of the
\* options.
SingleEntityKeys(s, options) ==
  {k \in DOMAIN s : \E id \in 0..2 : k \in InvalidateKeys(id, options)}

\* C38: invalidateProductLists leaves the single-entity hash entries and
\* string entries stored under the same prefix unchanged, for the default
\* prefix and for a prefix supplied by the caller.
C38_ListInvalidationSparesEntities ==
  [][(AttemptStep /\ call.op = "invalidateProductLists") =>
       \A k \in SingleEntityKeys(store, call.options) :
         k \in DOMAIN store' /\ store'[k] = store[k]]_vars

(***************************************************************************)
(* List queries.  Persistence holds two rows.  InitLists: paginated and    *)
(* filtered queries on a backend that executes every command;              *)
(* InitListRequests: the default query and deletions that overtake it, on  *)
(* a backend that may fail.                                                *)
(***************************************************************************)
Gadget == [id |-> 2, name |-> <<"b">>, price |-> 500, category |-> <<"c">>]

TwoRowDb == [rows |-> [i \in {1, 2} |-> IF i = 1 THEN Widget ELSE Gadget], seq |-> 2]

InitLists ==
  /\ Start
  /\ reliable = TRUE
  /\ productConfig = DefaultConfig
  /\ db = TwoRowDb

NextLists ==
  \/ getProducts
  \/ getProductsResumed
  \/ AttemptGetCachedProducts
  \/ AttemptCacheProducts
  \/ OnReady
  \/ OnError
  \/ OnEnd

SpecLists == InitLists /\ [][NextLists]_vars

InitListRequests ==
  /\ Start
  /\ reliable = FALSE
  /\ productConfig = DefaultConfig
  /\ db = TwoRowDb

NextListRequests ==
  \/ getProducts
  \/ getProductsResumed
  \/ deleteProduct
  \/ deleteProductResumed
  \/ Yield
  \/ Continue
  \/ AttemptGetCachedProducts
  \/ AttemptCacheProducts
  \/ AttemptInvalidateProduct
  \/ AttemptInvalidateProductLists
  \/ OnReady
  \/ OnError
  \/ OnEnd

SpecListRequests == InitListRequests /\ [][NextListRequests]_vars

\* The products held by the list entry of key k.
ListEntry(k) == ParseProducts(store[k].value[1])

\* C35: once the requests begun have returned and no cache operation is
\* under way, no attempt having failed, no list entry of the cache holds a
\* row whose deletion has returned true (a result read from persistence
\* before that deletion).
C35_NoStaleListAfterWrite ==
  (parked = <<>> /\ service.pc = "done" /\ call.pc # "run" /\ ~obs.failed) =>
    \A k \in ListKeys(store, NoOptions) :
      \A i \in DOMAIN ListEntry(k) :
        <<"deleteProduct", ListEntry(k)[i].id>> \notin service.returned

\* Two list queries are the same: same page, same limit after clamping,
\* same category and same name, an absent filter being the empty text.
SameListQuery(q1, q2) ==
  /\ PageOf(q1) = PageOf(q2)
  /\ ActualLimit(q1) = ActualLimit(q2)
  /\ TextOr(q1.category) = TextOr(q2.category)
  /\ TextOr(q1.name) = TextOr(q2.name)

\* C39: with persistence unchanged, a getProducts answered from the list
\* cache returns the products, total and totalPages that persistence
\* answers for the same query.
C39_ListCacheTransparent ==
  (/\ service.op = "getProducts"
   /\ service.pc = "done"
   /\ service.outcome = "returned"
   /\ service.cached # Null
   /\ db = TwoRowDb
   /\ \A e \in service.served :
        e.cacheKey = CacheKeyOf(service.query) => SameListQuery(e.query, service.query)) =>
    /\ service.result[1].products = getManyAndCount(db, service.query).products
    /\ service.result[1].total = getManyAndCount(db, service.query).total
    /\ service.result[1].totalPages = Query("getProducts", db, 0).totalPages

\* C40: two list queries get the same cache key if and only if they are the
\* same query.
C40_FingerprintInjective ==
  \A a, b \in service.served :
    (a.cacheKey = b.cacheKey) <=> SameListQuery(a.query, b.query)

\* C33: with asyncCacheEnabled and enableProductListInvalidation both true,
\* every run of the deferred task of reCacheProduct performs the list
\* invalidation after the write step, whether the write step succeeded or
\* failed.
C33_ListInvalidationEveryRun ==
  \A i \in DOMAIN facade :
    (/\ facade[i].method = "reCacheProduct"
     /\ productConfig.asyncCacheEnabled
     /\ productConfig.enableProductListInvalidation
     /\ facade[i].pc = "finished") =>
      facade[i].invoked = <<"cacheProduct", "invalidateProductLists">>

\* The persistence write of a catalog write has succeeded: an entity was
\* saved, or a row was removed.
PersistenceWritten(svc) ==
  CASE svc.op = "createProduct" -> svc.fromDb # Null
    [] svc.op = "updateProduct" -> svc.fromDb # Null /\ svc.fromDb[1] # Null
    [] svc.op = "deleteProduct" -> svc.fromDb = Some(TRUE)
    [] OTHER -> FALSE

\* C34: a createProduct, updateProduct or deleteProduct whose persistence
\* write succeeded has attempted the list invalidation when it returns,
\* also when its single-entity cache operation failed.
C34_ListInvalidationAfterFailure ==
  (IsCatalogWrite(service.op) /\ service.pc = "done" /\ PersistenceWritten(service)) =>
    service.engine[Len(service.engine)] = "invalidateProductLists"

(***************************************************************************)
(* The product controller: the HTTP handlers createProduct, updateProduct  *)
(* and deleteProduct, each a chain of awaits over the catalog service, the *)
(* cache facade and the event service.                                     *)
(***************************************************************************)

\* Requests received in one run.
MaxHandled == 2

\* productConfig with enableEventEmission as well.
WithEventEmission(config, flag) ==
  [f \in DOMAIN config \cup {"enableEventEmission"} |->
     IF f = "enableEventEmission" THEN flag ELSE config[f]]

\* Every cache flag off.
NoCacheConfig == [f \in DOMAIN DefaultConfig |-> FALSE]

\* The status code each error class carries; any other error answers 500.
statusCode(error) ==
  CASE error = "ValidationError" -> 400
    [] error = "NotFoundError" -> 404
    [] error = "ConflictError" -> 409
    [] OTHER -> 500

\* A request enters its handler.
Received(handler, id, body) ==
  [HttpIdle EXCEPT !.handler = handler, !.pc = "service", !.id = id, !.body = body,
                   !.events = http.events, !.facade0 = Len(facade),
                   !.events0 = Len(http.events), !.svc0 = service.n,
                   !.n = http.n + 1]

\* The catch block of a handler: the response carries the status of the error.
Caught(h, error) ==
  [h EXCEPT !.pc = "done", !.error = error, !.status = statusCode(error)]

CanReceive == http.pc \in {"idle", "done"} /\ http.n < MaxHandled

\* The bodies of a create request: complete, and without a name.
CreateBodies == CreateInputs \cup {[name |-> <<>>, price |-> 999, category |-> <<"c">>]}

\* Number.isInteger(value) && value > 0
isPositiveInteger(value) == value \in Nat /\ value > 0

\* A request arrives at a handler and is validated.
ControllerReceives(handler, id, body, valid) ==
  /\ CanReceive
  /\ http' = IF valid
             THEN Received(handler, id, body)
             ELSE Caught(Received(handler, id, body), "ValidationError")
  /\ UNCHANGED <<store, connected, stats, call, prev, nCalls, obs, reliable,
                 productConfig, facade, service, db, parked, conn>>

ControllerCreateProduct ==
  \E body \in CreateBodies :
    ControllerReceives("createProduct", 0, body,
                       body.name # <<>> /\ body.price # 0 /\ body.category # <<>>)

ControllerUpdateProduct ==
  \E id \in {0} \cup ServiceIds, body \in UpdateInputs :
    ControllerReceives("updateProduct", id, body, isPositiveInteger(id))

ControllerDeleteProduct ==
  \E id \in {0} \cup ServiceIds :
    ControllerReceives("deleteProduct", id, NoFields, isPositiveInteger(id))

\* The handler is at its call of the catalog service, and no callback or
\* operation is waiting for the engine.
AtServiceCall(op) ==
  /\ http.pc = "service"
  /\ http.handler = op
  /\ service.n = http.svc0
  /\ call.pc = "idle"

\* await productService.createProduct({ name, price, category })
CreateProductCalled ==
  /\ AtServiceCall("createProduct")
  /\ createProduct
  /\ service'.data = http.body

\* await productService.updateProduct(productId, { name, price, category })
UpdateProductCalled ==
  /\ AtServiceCall("updateProduct")
  /\ updateProduct
  /\ service'.id = http.id
  /\ service'.data = http.body

\* await productService.deleteProduct(productId)
DeleteProductCalled ==
  /\ AtServiceCall("deleteProduct")
  /\ deleteProduct
  /\ service'.id = http.id

\* Variant: the handlers do not look at what the service returned.
NotFoundIgnored(handler, value) == FALSE

\* if (!product) of updateProduct, if (!deleted) of deleteProduct.
NotFound(handler, value) ==
  CASE handler = "updateProduct" -> value = Null
    [] handler = "deleteProduct" -> value = FALSE
    [] OTHER -> FALSE

\* The entity the handler goes on with.
ProductOf(handler, value) ==
  CASE handler = "createProduct" -> value
    [] handler = "updateProduct" -> IF value = Null THEN NoProduct ELSE value[1]
    [] OTHER -> NoProduct

\* The first facade call of a handler.
FirstCall(h) ==
  IF h.handler = "createProduct"
  THEN FacadeCall("cacheProduct", h.product, 0, Some(TRUE))
  ELSE FacadeCall("invalidateProduct", NoProduct, h.id, Undef)

\* The second facade call of a handler.
SecondCall(h) ==
  IF h.handler = "updateProduct"
  THEN FacadeCall("reCacheProduct", h.product, 0, Undef)
  ELSE FacadeCall("invalidateProductLists", NoProduct, 0, Undef)

\* The handler calls a facade method and awaits its promise.
Issued(h, rec, pc) == [h EXCEPT !.pc = pc, !.issued = Append(@, rec.method)]

\* The service call has settled: the handler throws what the service threw,
\* throws NotFoundError for a falsy result, or makes its first facade call.
ControllerResumed ==
  /\ http.pc = "service"
  /\ service.n = http.svc0 + 1
  /\ service.pc = "done"
  /\ IF service.outcome = "thrown"
     THEN /\ http' = Caught([http EXCEPT !.reported = "thrown"], service.error)
          /\ facade' = facade
     ELSE IF NotFound(http.handler, service.result[1])
     THEN /\ http' = Caught([http EXCEPT !.reported = "not-found"], "NotFoundError")
          /\ facade' = facade
     ELSE LET h == [http EXCEPT !.reported = "returned",
                                !.product = ProductOf(http.handler, service.result[1])]
          IN /\ http' = Issued(h, FirstCall(h), "second")
             /\ facade' = Append(facade, Dispatched(FirstCall(h)))
  /\ UNCHANGED <<store, connected, stats, call, prev, nCalls, obs, reliable,
                 productConfig, service, db, parked, conn>>

\* The first facade promise has resolved: the second facade call.
ControllerSecondCall ==
  /\ http.pc = "second"
  /\ http' = Issued(http, SecondCall(http), "emit")
  /\ facade' = Append(facade, Dispatched(SecondCall(http)))
  /\ UNCHANGED <<store, connected, stats, call, prev, nCalls, obs, reliable,
                 productConfig, service, db, parked, conn>>

\* The event a handler emits.
EventOf(h) ==
  CASE h.handler = "createProduct" -> [name |-> "product.created", productId |-> h.product.id]
    [] h.handler = "updateProduct" -> [name |-> "product.updated", productId |-> h.product.id]
    [] h.handler = "deleteProduct" -> [name |-> "product.deleted", productId |-> h.id]

\* emitProductCreated, emitProductUpdated, emitProductDeleted.
Emitted(config, events, event) ==
  IF ~config.enableEventEmission THEN events ELSE Append(events, event)

\* The second facade promise has resolved: the event, then the response.
ControllerEmit ==
  /\ http.pc = "emit"
  /\ http' = [http EXCEPT !.pc = "done",
                          !.events = Emitted(productConfig, @, EventOf(http)),
                          !.status = IF http.handler = "createProduct" THEN 201 ELSE 200]
  /\ UNCHANGED <<store, connected, stats, call, prev, nCalls, obs, reliable,
                 productConfig, facade, service, db, parked, conn>>

\* A deferred callback starts once the service is not waiting for the engine.
ControllerTaskStart ==
  /\ service.pc \in {"idle", "done"}
  /\ TaskStart

InitController ==
  /\ Start
  /\ reliable = TRUE
  /\ productConfig \in {WithEventEmission(c, e) : c \in {DefaultConfig, NoCacheConfig},
                                                  e \in BOOLEAN}
  /\ db = OneRowDb

NextController ==
  \/ ControllerCreateProduct
  \/ ControllerUpdateProduct
  \/ ControllerDeleteProduct
  \/ CreateProductCalled
  \/ UpdateProductCalled
  \/ DeleteProductCalled
  \/ createProductResumed
  \/ updateProductResumed
  \/ deleteProductResumed
  \/ ControllerResumed
  \/ ControllerSecondCall
  \/ ControllerEmit
  \/ ControllerTaskStart
  \/ TaskResume
  \/ AttemptCacheProduct
  \/ AttemptUpdateProductHash
  \/ AttemptInvalidateProduct
  \/ AttemptInvalidateProductLists
  \/ OnReady

SpecController == InitController /\ [][NextController]_vars

\* The service call of the request being handled has settled.
ServiceSettled == service.n = http.svc0 + 1 /\ service.pc = "done"

\* The service call of the request has reported a persistence write.
ServiceWrote ==
  /\ ServiceSettled
  /\ service.op = http.handler
  /\ service.outcome = "returned"
  /\ PersistenceWritten(service)

\* The two facade methods of each handler, in the order of its code.
FacadeCallsOf(handler) ==
  CASE handler = "createProduct" -> <<"cacheProduct", "invalidateProductLists">>
    [] handler = "updateProduct" -> <<"invalidateProduct", "reCacheProduct">>
    [] handler = "deleteProduct" -> <<"invalidateProduct", "invalidateProductLists">>

\* C32: in the handlers createProduct, updateProduct and deleteProduct a
\* facade cache call is issued only after the catalog service has reported
\* a successful persistence write, the event is emitted only after both
\* facade calls of the handler were issued, and when the service call has
\* thrown or reported not-found no facade call is made and no event emitted.
C32_WritePipelineOrder ==
  [][/\ Len(facade') > Len(facade) => ServiceWrote
     /\ Len(http'.events) > Len(http.events) =>
          /\ ServiceWrote
          /\ http.issued = FacadeCallsOf(http.handler)
          /\ Len(facade) = http.facade0 + 2
          /\ \A i \in 1..2 : facade[http.facade0 + i].method = http.issued[i]
     /\ (ServiceSettled /\ ~ServiceWrote) =>
          /\ Len(facade') = http.facade0
          /\ Len(http'.events) = http.events0]_vars

\* An update of product 1 was answered 200 after invalidateProduct and
\* reCacheProduct were issued and product.updated emitted; the deletion of
\* the absent product 2 that followed was answered 404 with no further
\* facade call and no further event.
C32_Witness ==
  /\ http.n = 2
  /\ http.handler = "deleteProduct"
  /\ http.status = 404
  /\ http.reported = "not-found"
  /\ Len(facade) = 2
  /\ facade[1].method = "invalidateProduct"
  /\ facade[2].method = "reCacheProduct"
  /\ http.events = <<[name |-> "product.updated", productId |-> 1]>>

====
